---- MODULE Spec2Model ----
(***************************************************************************)
(* Tiling and stitching of label images.                                   *)
(*                                                                         *)
(*   Cropper   caliban_toolbox/reshape_data.py  crop_multichannel_data     *)
(*   Stitcher  deepcell_toolbox/post_annotation/npz_postprocessing.py      *)
(*             stitch_crops, reconstruct_image_stack                       *)
(*                                                                         *)
(* A label plane is a function from pixels <<r, c>> (0-based, as the       *)
(* numpy indices) to label ids, 0 being background.  Only the label        *)
(* channel of the tensors is modelled: the stack handed to stitch_crops    *)
(* has one channel (chan_names of length 1).                               *)
(***************************************************************************)
EXTENDS Integers, Sequences, FiniteSets, TLC

VARIABLES
    pc,             \* where the pipeline stands
    args,           \* arguments of the crop_multichannel_data call
    result,         \* what crop_multichannel_data returned
    err,            \* the exception that ended the run, "" when none
    trace,          \* helpers crop_multichannel_data has invoked, in order
    mode,           \* what the annotators do to the crop labels
    stack,          \* crop stack given to stitch_crops: stack[img][crop]
    log_data,       \* the reconstruction log read by the Stitcher
    stitched_image, \* accumulator of stitch_crops: stitched_image[img]
    img,            \* loop variables of stitch_crops
    row,
    col,
    crop_counter,
    stitched_images, \* result of reconstruct_image_stack (padding removed)
    self,           \* the object a method is called on (its attributes)
    threads         \* the threads inside a method of `self`, by thread id

vars == <<pc, args, result, err, trace, mode, stack, log_data, stitched_image,
          img, row, col, crop_counter, stitched_images, self, threads>>

\* what the functions of the tiling pipeline never touch
objVars == <<self, threads>>

cropVars == <<args, result, trace>>
loopVars == <<img, row, col, crop_counter>>

(***************************************************************************)
(* Bounds                                                                  *)
(***************************************************************************)
\* largest raw label id an annotated crop may hold
MaxLabel == 2

\* longest axis handed to the Coordinate Planner
MaxImgLen == 6

\* Python's None for an optional tuple argument, a scalar given where a tuple
\* is expected, and a tuple or list of entries
NoneArg == [kind |-> "None", items |-> <<>>]
ScalarArg == [kind |-> "scalar", items |-> <<>>]
TupleArg(items) == [kind |-> "tuple", items |-> items]

\* an entry of such a tuple: the integer v, or the float v.0
IntEntry(v) == [v |-> v, int |-> TRUE]
FloatEntry(v) == [v |-> v, int |-> FALSE]

\* an optional number: crop_size=..., crop_num=... of compute_crop_indices
Some(v) == [given |-> TRUE, v |-> v]
Absent == [given |-> FALSE, v |-> 0]

NoResult == [kind |-> "none"]

\* no object: the state of a plain function call
NoObject == [class |-> "none"]
NoLog == [padded_shape |-> <<0, 0, 0>>, row_start |-> <<>>, row_end |-> <<>>,
          col_start |-> <<>>, col_end |-> <<>>, row_padding |-> 0, col_padding |-> 0]

(***************************************************************************)
(* numpy helpers                                                           *)
(***************************************************************************)
Max(S) == CHOOSE x \in S : \A y \in S : y <= x

Min(S) == CHOOSE x \in S : \A y \in S : x <= y

\* np.zeros((rows, cols))
zeros(rows, cols) == [p \in (0 .. rows - 1) \X (0 .. cols - 1) |-> 0]

\* np.amax of a non-empty array
amax(a) == Max({a[p] : p \in DOMAIN a})

\* np.unique(a), as the set of values
unique(a) == {a[p] : p \in DOMAIN a}

\* the set S as an ascending sequence (np.unique returns sorted values)
RECURSIVE sorted(_)
sorted(S) == IF S = {} THEN <<>> ELSE <<Min(S)>> \o sorted(S \ {Min(S)})

\* a[r0:r1, c0:c1] of a plane, re-indexed from 0
slice(a, r0, r1, c0, c1) ==
    [p \in (0 .. r1 - r0 - 1) \X (0 .. c1 - c0 - 1) |-> a[<<r0 + p[1], c0 + p[2]>>]]

\* a[r0:r1, c0:c1] = b
assign(a, r0, r1, c0, c1, b) ==
    [p \in DOMAIN a |->
        IF p[1] \in r0 .. r1 - 1 /\ p[2] \in c0 .. c1 - 1
        THEN b[<<p[1] - r0, p[2] - c0>>]
        ELSE a[p]]

(***************************************************************************)
(* skimage.segmentation.relabel_sequential: the non-zero labels are mapped *)
(* to 1..n in ascending order, 0 stays 0.                                  *)
(***************************************************************************)
relabel_gaps(a) == [p \in DOMAIN a |-> IF a[p] = 0 THEN 0 ELSE a[p] + 1]

relabel_sequential(a) ==
    [p \in DOMAIN a |-> Cardinality({l \in unique(a) \ {0} : l <= a[p]})]

(***************************************************************************)
(* stitch_crops, body of the loop over crops (lines 109-142)               *)
(***************************************************************************)
\* line 114: crop = np.where(crop == 0, crop, crop + lowest_allowed_val)
offset_keep(crop, lowest_allowed_val) == crop

offset_all(crop, lowest_allowed_val) == [p \in DOMAIN crop |-> crop[p] + lowest_allowed_val]

offset_crop(crop, lowest_allowed_val) ==
    [p \in DOMAIN crop |-> IF crop[p] = 0 THEN crop[p] ELSE crop[p] + lowest_allowed_val]

crop_overlap_vals(crop, cell, stitched_crop) ==
    {crop[p] : p \in {q \in DOMAIN crop : crop[q] = cell}} \ {0}

\* lines 127-129: the non-zero accumulator values under the pixels of `cell`
stitched_overlap_vals(crop, cell, stitched_crop) ==
    {stitched_crop[p] : p \in {q \in DOMAIN crop : crop[q] = cell}} \ {0}

\* line 133: stitched_overlap_vals[np.argmax(stitched_overlap_vals)]
min_overlap(vals) == Min(vals)

max_overlap(vals) == Max(vals)

remap_none(crop, cells, stitched_crop) == crop

\* lines 124-134: the loop over the cells of the crop, which rewrites crop in place
RECURSIVE remap_cells(_, _, _)
remap_cells(crop, cells, stitched_crop) ==
    IF cells = <<>> THEN crop
    ELSE LET cell == Head(cells)
             vals == stitched_overlap_vals(crop, cell, stitched_crop)
             next == IF vals # {}
                     THEN [p \in DOMAIN crop |->
                              IF crop[p] = cell THEN max_overlap(vals) ELSE crop[p]]
                     ELSE crop
         IN  remap_cells(next, Tail(cells), stitched_crop)

\* line 137: combined_crop = np.where(stitched_crop > 0, stitched_crop, crop)
overwrite(stitched_crop, crop) ==
    [p \in DOMAIN crop |-> IF crop[p] > 0 THEN crop[p] ELSE stitched_crop[p]]

replace_window(stitched_crop, crop) == crop

combine(stitched_crop, crop) ==
    [p \in DOMAIN crop |-> IF stitched_crop[p] > 0 THEN stitched_crop[p] ELSE crop[p]]

\* lines 113-140 for one crop placed at rows r0..r1-1, columns c0..c1-1 of `image`
place_crop(image, crop0, r0, r1, c0, c1) ==
    LET lowest_allowed_val == amax(image)
        crop == offset_crop(crop0, lowest_allowed_val)
        potential_overlap_cells == sorted(unique(crop) \ {0})
        stitched_crop == slice(image, r0, r1, c0, c1)
        remapped == remap_cells(crop, potential_overlap_cells, stitched_crop)
    IN  assign(image, r0, r1, c0, c1, combine(stitched_crop, remapped))

(***************************************************************************)
(* What the annotators did to a crop before the Stitcher reads it.         *)
(*   "asis"      the crop is read as stored                                *)
(*   "injective" the crop's labels are renamed by an injective map         *)
(*   "dense"     the crop's k labels are renamed onto 1..k                 *)
(***************************************************************************)
Renamings(crop, m) ==
    LET ids == unique(crop) \ {0}
    IN  CASE m = "asis" -> {[l \in ids |-> l]}
          [] m = "injective" ->
                {f \in [ids -> 1 .. MaxLabel] : \A a, b \in ids : f[a] = f[b] => a = b}
          [] m = "dense" ->
                {f \in [ids -> 1 .. Cardinality(ids)] : \A a, b \in ids : f[a] = f[b] => a = b}

rename(crop, f) == [p \in DOMAIN crop |-> IF crop[p] = 0 THEN 0 ELSE f[crop[p]]]

(***************************************************************************)
(* stitch_crops as steps: one action per crop placed, then the relabel     *)
(***************************************************************************)
num_rows == Len(log_data.row_start)
num_cols == Len(log_data.col_start)

\* lines 104-107 and 142: the loop headers, advanced after a crop is placed
next_loop_running(i, r, c, k) ==
    IF c + 1 < num_cols THEN <<i, r, c + 1, k + 1>>
    ELSE IF r + 1 < num_rows THEN <<i, r + 1, 0, k + 1>>
    ELSE <<i + 1, 0, 0, k + 1>>

next_loop(i, r, c, k) ==
    IF c + 1 < num_cols THEN <<i, r, c + 1, k + 1>>
    ELSE IF r + 1 < num_rows THEN <<i, r + 1, 0, k + 1>>
    ELSE <<i + 1, 0, 0, 0>>

\* line 110 on a crop axis shorter than the tile count: numpy raises IndexError
StitchIndexError ==
    /\ pc = "stitch_crops"
    /\ crop_counter >= Len(stack[img + 1])
    /\ pc' = "raised"
    /\ err' = "IndexError"
    /\ UNCHANGED <<cropVars, mode, objVars, stack, log_data, stitched_image, loopVars,
                   stitched_images>>

\* lines 109-142 for the crop at (img, row, col)
PlaceCrop ==
    /\ pc = "stitch_crops"
    /\ crop_counter < Len(stack[img + 1])
    /\ \E f \in Renamings(stack[img + 1][crop_counter + 1], mode) :
          LET crop == rename(stack[img + 1][crop_counter + 1], f)
              nxt  == next_loop(img, row, col, crop_counter)
          IN  /\ stitched_image' =
                    [stitched_image EXCEPT ![img + 1] =
                        place_crop(@, crop,
                                   log_data.row_start[row + 1], log_data.row_end[row + 1],
                                   log_data.col_start[col + 1], log_data.col_end[col + 1])]
              /\ img' = nxt[1]
              /\ row' = nxt[2]
              /\ col' = nxt[3]
              /\ crop_counter' = nxt[4]
              /\ pc' = IF nxt[1] < Len(stack) THEN "stitch_crops" ELSE "relabel"
    /\ UNCHANGED <<cropVars, err, mode, objVars, stack, log_data, stitched_images>>

\* lines 144-148: relabel every image, return
RelabelImages ==
    /\ pc = "relabel"
    /\ stitched_image' = [i \in DOMAIN stitched_image |-> relabel_sequential(stitched_image[i])]
    /\ pc' = "stitched"
    /\ UNCHANGED <<cropVars, err, mode, objVars, stack, log_data, loopVars, stitched_images>>

(***************************************************************************)
(* reconstruct_image_stack, line 187:                                      *)
(*   stitched_images[:, 0:(-row_padding), 0:(-col_padding), :]             *)
(***************************************************************************)
\* length of a[0:(-p)] for an axis of length n: -0 is 0, so 0:0 is empty
trimmed_len(n, p) == IF p = 0 THEN 0 ELSE Max({0, n - p})

RemovePadding ==
    /\ pc = "stitched"
    /\ LET rows == trimmed_len(log_data.padded_shape[2], log_data.row_padding)
           cols == trimmed_len(log_data.padded_shape[3], log_data.col_padding)
       IN  stitched_images' =
              [shape |-> <<log_data.padded_shape[1], rows, cols>>,
               data  |-> [i \in DOMAIN stitched_image |->
                             slice(stitched_image[i], 0, rows, 0, cols)]]
    /\ pc' = "done"
    /\ UNCHANGED <<cropVars, err, mode, objVars, stack, log_data, stitched_image, loopVars>>

(***************************************************************************)
(* Stitcher on annotated crops: stitch_crops is given any stack of crops   *)
(* of the logged crop size, with labels 0..MaxLabel, and a crop axis that  *)
(* may be shorter or longer than the logged tile count.                    *)
(***************************************************************************)
\* a tile plan with the padded shape <<images, rows, columns>> it covers, and
\* the crop-axis lengths of the stacks tried with it
Plan(shape, rs, re, cs, ce, lens) ==
    [padded_shape |-> shape, row_start |-> rs, row_end |-> re,
     col_start |-> cs, col_end |-> ce, lens |-> lens]

\* one row of two tiles overlapping by two columns; a 2x2 grid overlapping by
\* one column; one column of two tiles overlapping by one row; two images of
\* two tiles each; one row of two tiles overlapping by three columns
StitchPlans ==
    { Plan(<<1, 1, 4>>, <<0>>, <<1>>, <<0, 1>>, <<3, 4>>, {1, 2}),
      Plan(<<1, 1, 5>>, <<0>>, <<1>>, <<0, 1>>, <<4, 5>>, {2}),
      Plan(<<1, 2, 3>>, <<0, 1>>, <<1, 2>>, <<0, 1>>, <<2, 3>>, {3, 4}),
      Plan(<<1, 3, 1>>, <<0, 1>>, <<2, 3>>, <<0>>, <<1>>, {1, 2, 3}),
      Plan(<<2, 1, 3>>, <<0>>, <<1>>, <<0, 1>>, <<2, 3>>, {1, 2}) }

\* logged pad amounts tried on each axis
PadAmounts == {0, 1}

CropPixels(plan) ==
    (0 .. plan.row_end[1] - plan.row_start[1] - 1) \X
    (0 .. plan.col_end[1] - plan.col_start[1] - 1)

NoCall == [X_data |-> [dims |-> <<>>, shape |-> <<0, 0>>],
           y_data |-> [dims |-> <<>>, channels |-> 0, planes |-> <<>>],
           crop_size |-> NoneArg, crop_num |-> NoneArg,
           overlap_frac |-> <<0, 1>>, test_parameters |-> FALSE]

NoImages == [shape |-> <<0, 0, 0>>, data |-> <<>>]

\* stitch_crops line 101 and the first loop headers
StartStitch(shape) ==
    /\ stitched_image = [i \in 1 .. shape[1] |-> zeros(shape[2], shape[3])]
    /\ img = 0
    /\ row = 0
    /\ col = 0
    /\ crop_counter = 0

Init ==
    /\ pc = "stitch_crops"
    /\ args = NoCall
    /\ result = NoResult
    /\ err = ""
    /\ trace = <<>>
    /\ mode = "asis"
    /\ self = NoObject
    /\ threads = <<>>
    /\ \E plan \in StitchPlans :
          /\ \E rp \in PadAmounts, cp \in PadAmounts :
                /\ rp < plan.padded_shape[2]
                /\ cp < plan.padded_shape[3]
                /\ log_data = [padded_shape |-> plan.padded_shape,
                               row_start |-> plan.row_start, row_end |-> plan.row_end,
                               col_start |-> plan.col_start, col_end |-> plan.col_end,
                               row_padding |-> rp, col_padding |-> cp]
          /\ \E n \in plan.lens :
                stack \in [1 .. plan.padded_shape[1] ->
                              [1 .. n -> [CropPixels(plan) -> 0 .. MaxLabel]]]
          /\ StartStitch(plan.padded_shape)
    /\ stitched_images = NoImages

Next ==
    \/ PlaceCrop
    \/ StitchIndexError
    \/ RelabelImages
    \/ RemovePadding

Spec == Init /\ [][Next]_vars

(***************************************************************************)
(* Coordinate Planner (caliban_toolbox.utils.crop_utils.compute_crop_      *)
(* indices).  An overlap fraction is a rational <<numerator, denominator>> *)
(* with a positive denominator.                                            *)
(***************************************************************************)
\* floor(a / b), ceil(a / b) and round-half-to-even(a / b), b > 0
FloorDiv(a, b) == a \div b

CeilDiv(a, b) == -((-a) \div b)

RoundDiv(a, b) ==
    LET q == a \div b
        r == a % b
    IN  IF 2 * r < b THEN q
        ELSE IF 2 * r > b THEN q + 1
        ELSE IF q % 2 = 0 THEN q ELSE q + 1

Raise(e) == [kind |-> "raise", err |-> e]

\* tile i starts at round(i * stride), stride = S * (1 - f), and ends S further
plan_tiles(img_len, S, N, f) ==
    LET starts == [i \in 1 .. N |-> RoundDiv((i - 1) * S * (f[2] - f[1]), f[2])]
        ends   == [i \in 1 .. N |-> starts[i] + S]
    IN  [kind |-> "return", starts |-> starts, ends |-> ends,
         padding |-> ends[N] - img_len]

compute_crop_indices(img_len, crop_size, crop_num, f) ==
    IF crop_size.given
    THEN LET S == crop_size.v
         IN  IF S <= 0 THEN Raise("crop_size must be positive")
             ELSE IF S * (f[2] - f[1]) < f[2] THEN Raise("stride must be at least 1")
             ELSE LET n == CeilDiv((img_len - S) * f[2], S * (f[2] - f[1])) + 1
                  IN  plan_tiles(img_len, S, Max({1, n}), f)
    ELSE LET N == crop_num.v
         IN  IF N <= 0 THEN Raise("crop_num must be positive")
             ELSE IF f[1] >= f[2] THEN Raise("stride must be at least 1")
             ELSE LET S == CeilDiv(img_len * f[2], N * f[2] - f[1] * (N - 1))
                  IN  IF S * (f[2] - f[1]) < f[2] THEN Raise("stride must be at least 1")
                      ELSE plan_tiles(img_len, S, N, f)

(***************************************************************************)
(* Cropper helper (caliban_toolbox.utils.crop_utils.crop_helper): the      *)
(* plane is zero-padded at its trailing edges and the tile windows are     *)
(* copied, tile (r, c) at crop index r * num_col_tiles + c.                *)
(***************************************************************************)
pad(plane, rows, cols, row_padding, col_padding) ==
    [p \in (0 .. rows + row_padding - 1) \X (0 .. cols + col_padding - 1) |->
        IF p[1] < rows /\ p[2] < cols THEN plane[p] ELSE 0]

crop_helper(planes, rows, cols, row_starts, row_ends, col_starts, col_ends, padding) ==
    LET ncols == Len(col_starts)
        ncrops == Len(row_starts) * ncols
    IN  [crops |->
            [i \in DOMAIN planes |->
                [k \in 1 .. ncrops |->
                    LET r == ((k - 1) \div ncols) + 1
                        c == ((k - 1) % ncols) + 1
                    IN  slice(pad(planes[i], rows, cols, padding[1], padding[2]),
                              row_starts[r], row_ends[r], col_starts[c], col_ends[c])]],
         padded_shape |-> <<Len(planes), rows + padding[1], cols + padding[2]>>]

(***************************************************************************)
(* crop_multichannel_data                                                  *)
(*   X_data        [dims, shape]            (raw values are read by no one)*)
(*   y_data        [dims, channels, planes] (planes[fov], label channel)   *)
(*   crop_size, crop_num   None, a scalar, or a sequence of entries        *)
(*   an entry      an integer, or <<"float", v>> for the float v.0         *)
(***************************************************************************)
X_DIMENSION_LABELS == <<"fovs", "stacks", "crops", "slices", "rows", "cols", "channels">>
Y_DIMENSION_LABELS == <<"fovs", "stacks", "crops", "slices", "rows", "cols", "channels">>

\* isinstance(x, (tuple, list))
is_sequence(x) == x.kind = "tuple"

\* isinstance(e, int) and the numeric value of an entry
is_int(e) == e.int
val(e) == e.v

\* lines 72 and 86: not x[0] > 0 and x[1] > 0
entries_rejected(x) == ~(val(x.items[1]) > 0) /\ val(x.items[2]) > 0

\* lines 75 and 89: not isinstance(x[0], int) and isinstance(x[1], int)
types_rejected(x) == ~is_int(x.items[1]) /\ is_int(x.items[2])

\* lines 58-62
neither_only(crop_size, crop_num) ==
    IF crop_size = NoneArg /\ crop_num = NoneArg
    THEN "Either crop_size or crop_num must be specified"
    ELSE ""

neither_or_both(crop_size, crop_num) ==
    IF crop_size = NoneArg /\ crop_num = NoneArg
    THEN "Either crop_size or crop_num must be specified"
    ELSE IF crop_size # NoneArg /\ crop_num # NoneArg
    THEN "Only one of crop_size and crop_num should be provided"
    ELSE ""

\* lines 64-90, for crop_size and for crop_num
check_tuple(x, name) ==
    IF x = NoneArg THEN ""
    ELSE IF ~is_sequence(x) THEN name \o " must be a tuple or list"
    ELSE IF Len(x.items) # 2 THEN name \o " must be a tuple of two entries"
    ELSE IF entries_rejected(x) THEN name \o " entries must be positive"
    ELSE IF types_rejected(x) THEN name \o " entries must be integers"
    ELSE ""

\* lines 92-93
overlap_rejected(f) == f[1] < 0 \/ f[1] > f[2]

\* the checks of lines 57-93 alone
sanitize_params(a) ==
    LET e1 == neither_or_both(a.crop_size, a.crop_num)
        e2 == check_tuple(a.crop_size, "crop_size")
        e3 == check_tuple(a.crop_num, "crop_num")
    IN  IF e1 # "" THEN e1
        ELSE IF e2 # "" THEN e2
        ELSE IF e3 # "" THEN e3
        ELSE IF overlap_rejected(a.overlap_frac) THEN "overlap_frac must be between 0 and 1"
        ELSE ""

\* lines 57-102: the message of the first check that fails, "" when none does
sanitize(a) ==
    LET e1 == neither_or_both(a.crop_size, a.crop_num)
        e2 == check_tuple(a.crop_size, "crop_size")
        e3 == check_tuple(a.crop_num, "crop_num")
    IN  IF e1 # "" THEN e1
        ELSE IF e2 # "" THEN e2
        ELSE IF e3 # "" THEN e3
        ELSE IF overlap_rejected(a.overlap_frac) THEN "overlap_frac must be between 0 and 1"
        ELSE IF a.X_data.dims # X_DIMENSION_LABELS THEN "X_data does not have expected dims"
        ELSE IF a.y_data.dims # Y_DIMENSION_LABELS THEN "y_data does not have expected dims"
        ELSE IF a.y_data.channels # 1
             THEN "Only one type of segmentation label can be processed at a time"
        ELSE ""

ConfigurationErrors ==
    { "Either crop_size or crop_num must be specified",
      "Only one of crop_size and crop_num should be provided",
      "crop_size must be a tuple or list", "crop_num must be a tuple or list",
      "crop_size must be a tuple of two entries", "crop_num must be a tuple of two entries",
      "crop_size entries must be positive", "crop_num entries must be positive",
      "crop_size entries must be integers", "crop_num entries must be integers",
      "overlap_frac must be between 0 and 1",
      "crop_size must be positive", "crop_num must be positive",
      "stride must be at least 1",
      "slice overlap must be less than the length of the slice" }

ValidationErrors ==
    { "invalid input data shape",
      "X_data does not have expected dims", "y_data does not have expected dims",
      "Only one type of segmentation label can be processed at a time" }

\* lines 104-150: the outcome of a call whose arguments passed the checks
crop_and_log(a) ==
    LET planes == IF a.test_parameters THEN SubSeq(a.y_data.planes, 1, 1)
                  ELSE a.y_data.planes
        rows == a.X_data.shape[1]
        cols == a.X_data.shape[2]
        by_size == a.crop_size # NoneArg
        \* lines 109-124
        rp == IF by_size
              THEN compute_crop_indices(rows, Some(val(a.crop_size.items[1])), Absent,
                                        a.overlap_frac)
              ELSE compute_crop_indices(rows, Absent, Some(val(a.crop_num.items[1])),
                                        a.overlap_frac)
        cp == IF by_size
              THEN compute_crop_indices(cols, Some(val(a.crop_size.items[2])), Absent,
                                        a.overlap_frac)
              ELSE compute_crop_indices(cols, Absent, Some(val(a.crop_num.items[2])),
                                        a.overlap_frac)
    IN  IF rp.kind = "raise"
        THEN [kind |-> "raise", err |-> rp.err, trace |-> <<"compute_crop_indices">>]
        ELSE IF cp.kind = "raise"
        THEN [kind |-> "raise", err |-> cp.err,
              trace |-> <<"compute_crop_indices", "compute_crop_indices">>]
        ELSE LET y == crop_helper(planes, rows, cols, rp.starts, rp.ends,
                                  cp.starts, cp.ends, <<rp.padding, cp.padding>>)
                 tr == <<"compute_crop_indices", "compute_crop_indices",
                         "crop_helper", "crop_helper">>
             IN  IF ~by_size
                 \* line 141: crop_size[0] with crop_size None
                 THEN [kind |-> "raise", err |-> "TypeError", trace |-> tr]
                 ELSE [kind |-> "return", err |-> "", trace |-> tr,
                       y_data_cropped |-> y.crops,
                       padded_shape |-> y.padded_shape,
                       log_data |->
                          [row_starts |-> rp.starts, row_ends |-> rp.ends,
                           row_crop_size |-> val(a.crop_size.items[1]),
                           col_starts |-> cp.starts, col_ends |-> cp.ends,
                           col_crop_size |-> val(a.crop_size.items[2]),
                           row_padding |-> rp.padding, col_padding |-> cp.padding,
                           num_crops |-> Len(rp.starts) * Len(cp.starts),
                           label_name |-> a.y_data.dims[7]]]

crop_multichannel_data(a) ==
    IF sanitize(a) # ""
    THEN [kind |-> "raise", err |-> sanitize(a), trace |-> <<>>]
    ELSE crop_and_log(a)

CropMultichannelData ==
    /\ pc = "call"
    /\ LET r == crop_multichannel_data(args)
       IN  /\ trace' = r.trace
           /\ err' = r.err
           /\ IF r.kind = "raise"
              THEN pc' = "raised" /\ result' = NoResult
              ELSE pc' = "cropped" /\ result' = r
    /\ UNCHANGED <<args, mode, objVars, stack, log_data, stitched_image, loopVars, stitched_images>>

(***************************************************************************)
(* The label crops go to the annotators and come back as the stack of      *)
(* reconstruct_image_stack (lines 168-184), which reads the log and starts *)
(* stitch_crops (line 101).                                                *)
(***************************************************************************)
ReconstructImageStack ==
    /\ pc = "cropped"
    /\ stack' = result.y_data_cropped
    /\ log_data' = [padded_shape |-> result.padded_shape,
                    row_start |-> result.log_data.row_starts,
                    row_end |-> result.log_data.row_ends,
                    col_start |-> result.log_data.col_starts,
                    col_end |-> result.log_data.col_ends,
                    row_padding |-> result.log_data.row_padding,
                    col_padding |-> result.log_data.col_padding]
    /\ stitched_image' = [i \in 1 .. result.padded_shape[1] |->
                             zeros(result.padded_shape[2], result.padded_shape[3])]
    /\ img' = 0
    /\ row' = 0
    /\ col' = 0
    /\ crop_counter' = 0
    /\ pc' = "stitch_crops"
    /\ UNCHANGED <<cropVars, err, mode, objVars, stitched_images>>

(***************************************************************************)
(* Round trip: a label plane is cropped by crop_multichannel_data, the     *)
(* crops are annotated according to `mode` and stitched back.              *)
(***************************************************************************)
PlaneShape == <<3, 3>>

PlanePixels == (0 .. PlaneShape[1] - 1) \X (0 .. PlaneShape[2] - 1)

Modes == {"asis", "injective", "dense"}

XData == [dims |-> X_DIMENSION_LABELS, shape |-> PlaneShape]

YData(planes) == [dims |-> Y_DIMENSION_LABELS, channels |-> 1, planes |-> planes]

Idle ==
    /\ result = NoResult
    /\ err = ""
    /\ trace = <<>>
    /\ stack = <<>>
    /\ log_data = NoLog
    /\ stitched_image = <<>>
    /\ img = 0
    /\ row = 0
    /\ col = 0
    /\ crop_counter = 0
    /\ stitched_images = NoImages

\* pixels that share an edge
Neighbours(p, q) ==
    \/ p[1] = q[1] /\ (p[2] = q[2] + 1 \/ q[2] = p[2] + 1)
    \/ p[2] = q[2] /\ (p[1] = q[1] + 1 \/ q[1] = p[1] + 1)

RECURSIVE Reach(_, _)
Reach(S, ps) ==
    LET nxt == S \cup {q \in ps : \E p \in S : Neighbours(p, q)}
    IN  IF nxt = S THEN S ELSE Reach(nxt, ps)

Connected(ps) == ps = {} \/ Reach({CHOOSE p \in ps : TRUE}, ps) = ps

\* data model: every non-zero id of a label plane is one connected object
LabelPlanes ==
    {T \in [PlanePixels -> 0 .. MaxLabel] :
        \A l \in 1 .. MaxLabel : Connected({p \in PlanePixels : T[p] = l})}

InitRoundTrip ==
    /\ pc = "call"
    /\ mode \in Modes
    /\ self = NoObject
    /\ threads = <<>>
    /\ \E T \in LabelPlanes, f \in {<<0, 1>>, <<1, 2>>} :
          args = [X_data |-> XData, y_data |-> YData(<<T>>),
                  crop_size |-> TupleArg(<<IntEntry(2), IntEntry(2)>>), crop_num |-> NoneArg,
                  overlap_frac |-> f, test_parameters |-> FALSE]
    /\ Idle

NextPipeline ==
    \/ CropMultichannelData
    \/ ReconstructImageStack
    \/ PlaceCrop
    \/ RelabelImages
    \/ RemovePadding

SpecRoundTrip == InitRoundTrip /\ [][NextPipeline]_vars

(***************************************************************************)
(* Calls of crop_multichannel_data with any arguments                      *)
(***************************************************************************)
Entries == {IntEntry(v) : v \in -1 .. 2} \cup {FloatEntry(2)}

TupleArgs ==
    {NoneArg, ScalarArg, TupleArg(<<IntEntry(2)>>),
     TupleArg(<<IntEntry(2), IntEntry(2), IntEntry(2)>>)}
    \cup {TupleArg(<<a, b>>) : a \in Entries, b \in Entries}

OverlapFracs == {<<-1, 2>>, <<0, 1>>, <<1, 2>>, <<1, 1>>, <<3, 2>>}

SwappedDims == <<"fovs", "stacks", "crops", "slices", "cols", "rows", "channels">>

OnePixel == [p \in PlanePixels |-> IF p = <<1, 1>> THEN 1 ELSE 0]

InitCrop ==
    /\ pc = "call"
    /\ mode = "asis"
    /\ self = NoObject
    /\ threads = <<>>
    /\ \E xd \in {X_DIMENSION_LABELS, SwappedDims},
          yd \in {Y_DIMENSION_LABELS, SwappedDims},
          ch \in {1, 2},
          planes \in {<<OnePixel>>, <<OnePixel, zeros(PlaneShape[1], PlaneShape[2])>>},
          cs \in TupleArgs, cn \in TupleArgs, f \in OverlapFracs, tp \in BOOLEAN :
          args = [X_data |-> [dims |-> xd, shape |-> PlaneShape],
                  y_data |-> [dims |-> yd, channels |-> ch, planes |-> planes],
                  crop_size |-> cs, crop_num |-> cn,
                  overlap_frac |-> f, test_parameters |-> tp]
    /\ Idle

SpecCrop == InitCrop /\ [][NextPipeline]_vars

(***************************************************************************)
(* Properties of the Stitcher                                              *)
(***************************************************************************)
\* the non-zero labels of a plane are exactly 1..n
Dense(a) ==
    LET ids == unique(a) \ {0} IN ids = 1 .. Cardinality(ids)

\* window of tile (r, c) in the padded plane, r and c 0-based
TileWindow(r, c) ==
    (log_data.row_start[r + 1] .. log_data.row_end[r + 1] - 1) \X
    (log_data.col_start[c + 1] .. log_data.col_end[c + 1] - 1)

Tiles == (0 .. num_rows - 1) \X (0 .. num_cols - 1)

\* line 110 with the loop headers: the crop index of tile (r, c)
CropIndex(t) == t[1] * num_cols + t[2]

\* pixels of the padded plane where the crop of tile t holds label id
Footprint(i, t, id) ==
    {p \in TileWindow(t[1], t[2]) :
        stack[i][CropIndex(t) + 1][<<p[1] - log_data.row_start[t[1] + 1],
                                     p[2] - log_data.col_start[t[2] + 1]>>] = id}

CropIds(i, t) == unique(stack[i][CropIndex(t) + 1]) \ {0}

StackMatchesLog == \A i \in DOMAIN stack : Len(stack[i]) = num_rows * num_cols

\* C1: after stitch_crops and the padding removal, the non-zero labels of every
\* plane are exactly 1..max, also when crops hold labels in the padded region.
C1_DenseAfterPaddingRemoval ==
    pc = "done" =>
        \A i \in DOMAIN stitched_images.data : Dense(stitched_images.data[i])

\* C6: the output's row and column lengths are the padded lengths minus the
\* logged pad amounts, for every pad amount >= 0, and only trailing rows and
\* columns are removed.
C6_PaddingRemoved ==
    pc = "done" =>
        LET rows == log_data.padded_shape[2] - log_data.row_padding
            cols == log_data.padded_shape[3] - log_data.col_padding
        IN  /\ stitched_images.shape = <<log_data.padded_shape[1], rows, cols>>
            /\ \A i \in DOMAIN stitched_image :
                  stitched_images.data[i] = slice(stitched_image[i], 0, rows, 0, cols)

\* C7: when the crop axis of the stack is shorter or longer than the number of
\* tiles of the log, stitch_crops does not return a stitched image.
C7_MismatchFails ==
    ~StackMatchesLog => pc \notin {"stitched", "done"}

\* tiles a and b are neighbours in the grid
Adjacent(a, b) ==
    \/ a[1] = b[1] /\ b[2] = a[2] + 1
    \/ a[2] = b[2] /\ b[1] = a[1] + 1

\* ids ia of tile a and ib of tile b label the two parts of one object that lies
\* in the windows of a and b only and reaches their overlap region
TwoCropObject(i, a, b, ia, ib) ==
    LET fa == Footprint(i, a, ia)
        fb == Footprint(i, b, ib)
        wa == TileWindow(a[1], a[2])
        wb == TileWindow(b[1], b[2])
    IN  /\ Adjacent(a, b)
        /\ fa \cap wb = fb \cap wa
        /\ fa \cap wb # {}
        /\ \A t \in Tiles \ {a, b} : (fa \cup fb) \cap TileWindow(t[1], t[2]) = {}

\* C3: an object lying in exactly two adjacent crops and reaching their overlap,
\* labelled with one id in each crop (the two ids independent), carries one
\* single non-zero id on all its pixels in the output of stitch_crops.
C3_OverlapMerge ==
    (pc = "stitched" /\ StackMatchesLog) =>
        \A i \in DOMAIN stack : \A a \in Tiles, b \in Tiles :
            \A ia \in CropIds(i, a), ib \in CropIds(i, b) :
                TwoCropObject(i, a, b, ia, ib) =>
                    \E id \in 1 .. amax(stitched_image[i]) :
                        \A p \in Footprint(i, a, ia) \cup Footprint(i, b, ib) :
                            stitched_image[i][p] = id

\* an object of three pixels, one of them outside the overlap on each side,
\* labelled 1 in the first crop and 2 in the second, has been stitched
C3_Witness ==
    /\ pc = "stitched"
    /\ StackMatchesLog
    /\ \E i \in DOMAIN stack : \E a \in Tiles, b \in Tiles :
          /\ 1 \in CropIds(i, a)
          /\ 2 \in CropIds(i, b)
          /\ TwoCropObject(i, a, b, 1, 2)
          /\ Footprint(i, a, 1) \ TileWindow(b[1], b[2]) # {}
          /\ Footprint(i, b, 2) \ TileWindow(a[1], a[2]) # {}
          /\ amax(stitched_image[i]) >= 2

(***************************************************************************)
(* Properties of the round trip                                            *)
(***************************************************************************)
\* the plane given to the Cropper, zero-padded as crop_helper pads it
PaddedT(i) ==
    pad(args.y_data.planes[i], args.X_data.shape[1], args.X_data.shape[2],
        log_data.row_padding, log_data.col_padding)

\* same background, and the non-zero labels of a and b are in bijection pixel by pixel
SamePartition(a, b) ==
    \A p \in DOMAIN a :
        /\ a[p] = 0 <=> b[p] = 0
        /\ \A q \in DOMAIN a : a[p] = a[q] <=> b[p] = b[q]

\* C2: stitching the unchanged crops of a plane T gives T's background and a
\* labelling in bijection with T's, each object carrying one id over its whole
\* footprint, for every overlap fraction in [0,1).
C2_RoundTrip ==
    (pc = "stitched" /\ mode = "asis") =>
        \A i \in DOMAIN stitched_image : SamePartition(PaddedT(i), stitched_image[i])

\* every non-zero id of the plane covers exactly its bounding box
Rectangles(T) ==
    \A l \in unique(T) \ {0} :
        LET fp == {p \in DOMAIN T : T[p] = l}
        IN  \A r \in {p[1] : p \in fp}, c \in {p[2] : p \in fp} : T[<<r, c>>] = l

Overlapping == args.overlap_frac[1] > 0

\* C4: k disjoint rectangles, cut into a 2x2 grid of overlapping crops that are
\* renumbered 1..k_c each, come back as exactly k ids 1..k, each with the
\* footprint of one rectangle.
C4_RectanglesRestored ==
    (pc = "stitched" /\ mode = "dense" /\ Overlapping /\ Rectangles(PaddedT(1))
     /\ num_rows = 2 /\ num_cols = 2) =>
        /\ SamePartition(PaddedT(1), stitched_image[1])
        /\ unique(stitched_image[1]) \ {0} = 1 .. Cardinality(unique(PaddedT(1)) \ {0})

\* two rectangles, one of them in all four crops, have been cropped, renumbered
\* and stitched
C4_Witness ==
    /\ pc = "stitched"
    /\ mode = "dense"
    /\ Overlapping
    /\ num_rows = 2 /\ num_cols = 2
    /\ Rectangles(PaddedT(1))
    /\ Cardinality(unique(PaddedT(1)) \ {0}) = 2
    /\ \E l \in 1 .. MaxLabel :
          \A t \in Tiles : \E p \in TileWindow(t[1], t[2]) : PaddedT(1)[p] = l
    /\ PaddedT(1)[<<0, 0>>] = 2

\* no two different objects of T share a non-zero id in plane a
Distinct(T, a) ==
    \A p \in DOMAIN a, q \in DOMAIN a :
        (T[p] # 0 /\ T[q] # 0 /\ T[p] # T[q] /\ a[p] # 0) => a[p] # a[q]

\* C5: when the crops are the crops of one labelling, renumbered injectively
\* inside each crop, two different objects never share an id, neither in the
\* accumulator at any point of stitch_crops nor in the output.
C5_DistinctStayDistinct ==
    /\ pc \in {"stitch_crops", "relabel", "stitched"} =>
          \A i \in DOMAIN stitched_image : Distinct(PaddedT(i), stitched_image[i])
    /\ pc = "done" =>
          \A i \in DOMAIN stitched_images.data :
              Distinct(PaddedT(i), stitched_images.data[i])

\* two objects that touch, both in the first crop, which was read with its two
\* labels swapped
C5_Witness ==
    /\ pc = "stitch_crops"
    /\ mode = "injective"
    /\ crop_counter = 1
    /\ PaddedT(1)[<<0, 0>>] = 1
    /\ PaddedT(1)[<<0, 1>>] = 2
    /\ stitched_image[1][<<0, 0>>] = 2
    /\ stitched_image[1][<<0, 1>>] = 1

(***************************************************************************)
(* Properties of crop_multichannel_data's argument checks                  *)
(***************************************************************************)
Called == pc # "call"

\* C8: a call with neither or both of crop_size and crop_num is rejected with a
\* configuration error and never computes crop indices.
C8_NeitherOrBothRejected ==
    (Called /\ (args.crop_size = NoneArg <=> args.crop_num = NoneArg)) =>
        /\ pc = "raised"
        /\ err \in ConfigurationErrors
        /\ trace = <<>>

\* both arguments given, each valid on its own, with everything else valid
C8_Witness ==
    /\ pc = "raised"
    /\ args.crop_size = TupleArg(<<IntEntry(2), IntEntry(2)>>)
    /\ args.crop_num = TupleArg(<<IntEntry(2), IntEntry(2)>>)
    /\ args.overlap_frac = <<1, 2>>
    /\ args.X_data.dims = X_DIMENSION_LABELS
    /\ args.y_data.dims = Y_DIMENSION_LABELS
    /\ args.y_data.channels = 1
    /\ err = "Only one of crop_size and crop_num should be provided"

HasNonPositive(x) ==
    /\ is_sequence(x)
    /\ Len(x.items) = 2
    /\ (val(x.items[1]) <= 0 \/ val(x.items[2]) <= 0)

\* C9: every crop_size and every crop_num with an entry <= 0 (first, second or
\* both) is rejected with a configuration error.
C9_NonPositiveRejected ==
    (Called /\ (HasNonPositive(args.crop_size) \/ HasNonPositive(args.crop_num))) =>
        /\ pc = "raised"
        /\ err \in ConfigurationErrors

\* C10: every overlap fraction outside [0,1) - negative, above 1, or 1 itself -
\* is rejected with a configuration error.
C10_OverlapRejected ==
    (Called /\ (args.overlap_frac[1] < 0 \/ args.overlap_frac[1] >= args.overlap_frac[2])) =>
        /\ pc = "raised"
        /\ err \in ConfigurationErrors

\* a (rows, cols) tuple of positive integers
ValidPair(x) ==
    /\ is_sequence(x)
    /\ Len(x.items) = 2
    /\ \A i \in 1 .. 2 : is_int(x.items[i]) /\ val(x.items[i]) > 0

InUnitInterval(f) == 0 <= f[1] /\ f[1] < f[2]

ValidTensors ==
    /\ args.X_data.dims = X_DIMENSION_LABELS
    /\ args.y_data.dims = Y_DIMENSION_LABELS
    /\ args.y_data.channels = 1

LogKeys ==
    {"row_starts", "row_ends", "row_crop_size", "col_starts", "col_ends",
     "col_crop_size", "row_padding", "col_padding", "num_crops", "label_name"}

\* C11: a call with a valid crop_num = (rows, cols) and no crop_size completes
\* and returns the crops with a log of boundaries, pad amounts, crop count and
\* crop sizes, as a call with a crop_size does.
C11_CropNumReturnsLog ==
    (Called /\ args.crop_size = NoneArg /\ ValidPair(args.crop_num)
     /\ InUnitInterval(args.overlap_frac) /\ ValidTensors) =>
        /\ pc # "raised"
        /\ result.kind = "return"
        /\ DOMAIN result.log_data = LogKeys
        /\ result.log_data.num_crops =
              val(args.crop_num.items[1]) * val(args.crop_num.items[2])

\* C13: with an axis order of X_data or y_data other than the fixed layout, or
\* a label-channel count other than 1, the call raises before
\* compute_crop_indices or crop_helper is invoked and returns nothing; with
\* valid tiling parameters the error is a validation error.
C13_FailFast ==
    (Called /\ ~ValidTensors) =>
        /\ pc = "raised"
        /\ trace = <<>>
        /\ result = NoResult
        /\ err \in ConfigurationErrors \cup ValidationErrors
        /\ ( ( /\ (args.crop_size = NoneArg) # (args.crop_num = NoneArg)
               /\ (ValidPair(args.crop_size) \/ ValidPair(args.crop_num))
               /\ InUnitInterval(args.overlap_frac) )
             => err \in ValidationErrors )

\* valid tiling parameters and axis orders, two label channels
C13_Witness ==
    /\ pc = "raised"
    /\ args.crop_size = TupleArg(<<IntEntry(2), IntEntry(2)>>)
    /\ args.crop_num = NoneArg
    /\ args.overlap_frac = <<1, 2>>
    /\ args.X_data.dims = X_DIMENSION_LABELS
    /\ args.y_data.dims = Y_DIMENSION_LABELS
    /\ args.y_data.channels = 2
    /\ trace = <<>>
    /\ err = "Only one type of segmentation label can be processed at a time"

(***************************************************************************)
(* Slicer (caliban_toolbox/reshape_data.py create_slice_data).  A tensor   *)
(* is [dims, shape, frames]: its axis names, its axis sizes and, for the   *)
(* frame axis, the identities 1..stack_len of its frames (0 is a frame of  *)
(* zero padding).                                                          *)
(***************************************************************************)
\* slice_utils.compute_slice_indices: the 1-D plan of the frame axis, slices of
\* slice_stack_len frames that share slice_overlap frames with the next one
compute_slice_indices(stack_len, slice_stack_len, slice_overlap) ==
    IF slice_overlap >= slice_stack_len
    THEN Raise("slice overlap must be less than the length of the slice")
    ELSE LET stride == slice_stack_len - slice_overlap
             n == Max({1, CeilDiv(stack_len - slice_stack_len, stride) + 1})
             starts == [i \in 1 .. n |-> (i - 1) * stride]
         IN  [kind |-> "return", starts |-> starts,
              ends |-> [i \in 1 .. n |-> starts[i] + slice_stack_len]]

\* slice_utils.slice_helper: the frame windows, copied from the zero-padded
\* frame axis; the slice axis (axis 4) gets one entry per window
slice_helper(data, slice_start_indices, slice_end_indices) ==
    [dims |-> data.dims,
     shape |-> [i \in DOMAIN data.shape |->
                  IF i = 2 THEN slice_end_indices[1] - slice_start_indices[1]
                  ELSE IF i = 4 THEN Len(slice_start_indices)
                  ELSE data.shape[i]],
     frames |-> [k \in DOMAIN slice_start_indices |->
                   [j \in 1 .. slice_end_indices[k] - slice_start_indices[k] |->
                       IF slice_start_indices[k] + j <= Len(data.frames)
                       THEN data.frames[slice_start_indices[k] + j]
                       ELSE 0]]]

\* lines 167-176 without the check of y_data
check_x_only(X_data, y_data) ==
    IF Len(X_data.shape) # 7 THEN "invalid input data shape"
    ELSE IF X_data.dims # X_DIMENSION_LABELS THEN "X_data does not have expected dims"
    ELSE ""

\* lines 167-176: the message of the first check that fails, "" when none does
check_slice_inputs(X_data, y_data) ==
    IF Len(X_data.shape) # 7 THEN "invalid input data shape"
    ELSE IF X_data.dims # X_DIMENSION_LABELS THEN "X_data does not have expected dims"
    ELSE IF y_data.dims # Y_DIMENSION_LABELS THEN "y_data does not have expected dims"
    ELSE ""

\* lines 178-191
slice_and_log(a) ==
    LET stack_len == a.X_data.shape[2]
        ind == compute_slice_indices(stack_len, a.slice_stack_len, a.slice_overlap)
    IN  IF ind.kind = "raise"
        THEN [kind |-> "raise", err |-> ind.err, trace |-> <<"compute_slice_indices">>]
        ELSE [kind |-> "return", err |-> "",
              trace |-> <<"compute_slice_indices", "slice_helper", "slice_helper">>,
              X_data_slice |-> slice_helper(a.X_data, ind.starts, ind.ends),
              y_data_slice |-> slice_helper(a.y_data, ind.starts, ind.ends),
              log_data |-> [slice_start_indices |-> ind.starts,
                            slice_end_indices |-> ind.ends,
                            num_slices |-> Len(ind.starts)]]

create_slice_data(a) ==
    IF check_slice_inputs(a.X_data, a.y_data) # ""
    THEN [kind |-> "raise", err |-> check_slice_inputs(a.X_data, a.y_data), trace |-> <<>>]
    ELSE slice_and_log(a)

CreateSliceData ==
    /\ pc = "call"
    /\ LET r == create_slice_data(args)
       IN  /\ trace' = r.trace
           /\ err' = r.err
           /\ IF r.kind = "raise"
              THEN pc' = "raised" /\ result' = NoResult
              ELSE pc' = "sliced" /\ result' = r
    /\ UNCHANGED <<args, mode, objVars, stack, log_data, stitched_image, loopVars, stitched_images>>

\* axis names of a tensor of another rank
SixDims == SubSeq(X_DIMENSION_LABELS, 1, 6)
EightDims == X_DIMENSION_LABELS \o <<"extra">>

\* a tensor with the given axis names and stack_len frames, every other axis
\* of size 1
Tensor(dims, stack_len) ==
    [dims |-> dims,
     shape |-> [i \in DOMAIN dims |-> IF i = 2 THEN stack_len ELSE 1],
     frames |-> [t \in 1 .. stack_len |-> t]]

StackLens == 1 .. 4
SliceLens == 1 .. 3
SliceOverlaps == 0 .. 2

InitSlice ==
    /\ pc = "call"
    /\ mode = "asis"
    /\ self = NoObject
    /\ threads = <<>>
    /\ \E xd \in {X_DIMENSION_LABELS, SwappedDims, SixDims, EightDims},
          yd \in {Y_DIMENSION_LABELS, SwappedDims, SixDims},
          n \in StackLens, len \in SliceLens, ov \in SliceOverlaps :
          args = [X_data |-> Tensor(xd, n), y_data |-> Tensor(yd, n),
                  slice_stack_len |-> len, slice_overlap |-> ov]
    /\ Idle

NextSlice == CreateSliceData

SpecSlice == InitSlice /\ [][NextSlice]_vars

\* C12: create_slice_data fails with a validation error, before any slice
\* index is computed or any data is sliced, whenever the rank of an input
\* tensor is not 7 or the axis names of X_data or y_data are not the fixed
\* order.
C12_SliceValidation ==
    (Called /\ ( \/ Len(args.X_data.shape) # 7
                 \/ Len(args.y_data.shape) # 7
                 \/ args.X_data.dims # X_DIMENSION_LABELS
                 \/ args.y_data.dims # Y_DIMENSION_LABELS )) =>
        /\ pc = "raised"
        /\ err \in ValidationErrors
        /\ trace = <<>>
        /\ result = NoResult

\* X_data is valid, y_data has its row and column axes swapped
C12_Witness ==
    /\ pc = "raised"
    /\ args.X_data.dims = X_DIMENSION_LABELS
    /\ args.y_data.dims = SwappedDims
    /\ args.slice_overlap < args.slice_stack_len
    /\ err = "y_data does not have expected dims"
    /\ trace = <<>>

(***************************************************************************)
(* reconstruct_image_stack of caliban_toolbox/reshape_data.py, one action  *)
(* per statement.  args is [isdir, has_log, log]: whether crop_dir is a    *)
(* directory, whether it holds log_data.json, and the logged dictionary.   *)
(* `trace` lists the steps taken, `stack` is image_stack, of which the     *)
(* lengths of the crop and slice axes are kept.                            *)
(***************************************************************************)
reconstructVars == <<args, result, mode, objVars, stitched_image, loopVars, stitched_images>>

\* line 217: 'num_slices' in log_data
always_sliced(log) == TRUE

was_sliced(log) == "num_slices" \in DOMAIN log

\* line 221: 'num_crops' in log_data
was_cropped(log) == "num_crops" \in DOMAIN log

\* io_utils.load_npzs: the tiles of crop_dir as one stack, its crop and slice
\* axes as long as the log says
load_npzs(log) ==
    [crops  |-> IF "num_crops" \in DOMAIN log THEN log["num_crops"] ELSE 1,
     slices |-> IF "num_slices" \in DOMAIN log THEN log["num_slices"] ELSE 1]

\* slice_utils.stitch_slices and crop_utils.stitch_crops remove their axis
stitch_slices(slice_stack, log) == [slice_stack EXCEPT !.slices = 1]

stitch_crops(crop_stack, log) == [crop_stack EXCEPT !.crops = 1]

\* lines 205-207
ValidateCropDir ==
    /\ pc = "call"
    /\ trace' = Append(trace, "isdir")
    /\ IF args.isdir
       THEN pc' = "open_log" /\ err' = err
       ELSE pc' = "raised" /\ err' = "crop_dir not a valid directory"
    /\ UNCHANGED <<reconstructVars, stack, log_data>>

\* lines 209-211
ReadLogData ==
    /\ pc = "open_log"
    /\ IF args.has_log
       THEN /\ log_data' = args.log
            /\ trace' = Append(trace, "read_log")
            /\ pc' = "load_npzs"
            /\ err' = err
       ELSE /\ pc' = "raised"
            /\ err' = "FileNotFoundError"
            /\ UNCHANGED <<log_data, trace>>
    /\ UNCHANGED <<reconstructVars, stack>>

\* lines 213-214
LoadNpzs ==
    /\ pc = "load_npzs"
    /\ stack' = load_npzs(log_data)
    /\ trace' = Append(trace, "load_npzs")
    /\ pc' = "slices"
    /\ UNCHANGED <<reconstructVars, err, log_data>>

\* lines 216-218
StitchSlices ==
    /\ pc = "slices"
    /\ IF was_sliced(log_data)
       THEN /\ stack' = stitch_slices(stack, log_data)
            /\ trace' = Append(trace, "stitch_slices")
       ELSE UNCHANGED <<stack, trace>>
    /\ pc' = "crops"
    /\ UNCHANGED <<reconstructVars, err, log_data>>

\* lines 220-222
StitchCrops ==
    /\ pc = "crops"
    /\ IF was_cropped(log_data)
       THEN /\ stack' = stitch_crops(stack, log_data)
            /\ trace' = Append(trace, "stitch_crops")
       ELSE UNCHANGED <<stack, trace>>
    /\ pc' = "labels"
    /\ UNCHANGED <<reconstructVars, err, log_data>>

\* lines 224-234: the first key of the log that is read and missing
missing_key(log) ==
    IF "original_shape" \notin DOMAIN log THEN "original_shape"
    ELSE IF "label_name" \notin DOMAIN log THEN "label_name"
    ELSE IF "fov_names" \notin DOMAIN log THEN "fov_names"
    ELSE ""

LabelStack ==
    /\ pc = "labels"
    /\ IF missing_key(log_data) # ""
       THEN /\ pc' = "raised"
            /\ err' = "KeyError: " \o missing_key(log_data)
            /\ result' = result
       ELSE /\ pc' = "done"
            /\ err' = err
            /\ result' = [kind |-> "return", data |-> stack,
                           dims |-> Y_DIMENSION_LABELS,
                           fov_names |-> log_data["fov_names"],
                           label_name |-> log_data["label_name"]]
    /\ UNCHANGED <<args, mode, objVars, stitched_image, loopVars, stitched_images,
                   stack, log_data, trace>>

\* the keys a log may hold, with a value for each
LogValue(k) ==
    CASE k = "num_slices" -> 2
      [] k = "num_crops" -> 4
      [] k = "original_shape" -> <<1, 3, 1, 1, 3, 3, 1>>
      [] k = "label_name" -> "channels"
      [] k = "fov_names" -> <<"fov1">>

LogKeySets == SUBSET {"num_slices", "num_crops", "original_shape", "label_name", "fov_names"}

InitReconstruct ==
    /\ pc = "call"
    /\ mode = "asis"
    /\ self = NoObject
    /\ threads = <<>>
    /\ \E d \in BOOLEAN, l \in BOOLEAN, K \in LogKeySets :
          args = [isdir |-> d, has_log |-> l, log |-> [k \in K |-> LogValue(k)]]
    /\ Idle

NextReconstruct ==
    \/ ValidateCropDir
    \/ ReadLogData
    \/ LoadNpzs
    \/ StitchSlices
    \/ StitchCrops
    \/ LabelStack

SpecReconstruct == InitReconstruct /\ [][NextReconstruct]_vars

\* position of a step in the order of the claim
StepRank(step) ==
    CASE step = "isdir" -> 1
      [] step = "read_log" -> 2
      [] step = "load_npzs" -> 3
      [] step = "stitch_slices" -> 4
      [] step = "stitch_crops" -> 5

Taken(step) == \E i \in DOMAIN trace : trace[i] = step

\* C14: the steps of reconstruct_image_stack occur in the order validate
\* crop_dir, read the log, load the tiles, stitch slices, stitch crops, none
\* without the ones before it; a stitch step runs exactly when its key is in
\* the log; an invalid crop_dir raises before the log or any tile is read.
C14_StepOrder ==
    /\ \A i \in DOMAIN trace, j \in DOMAIN trace :
          i < j => StepRank(trace[i]) < StepRank(trace[j])
    /\ \A i \in DOMAIN trace :
          StepRank(trace[i]) <= 3 => StepRank(trace[i]) = i
    /\ (Taken("stitch_slices") \/ Taken("stitch_crops")) => Taken("load_npzs")
    /\ Taken("stitch_slices") => "num_slices" \in DOMAIN args.log
    /\ Taken("stitch_crops") => "num_crops" \in DOMAIN args.log
    /\ (pc \in {"crops", "labels", "done"} /\ "num_slices" \in DOMAIN args.log)
          => Taken("stitch_slices")
    /\ (pc \in {"labels", "done"} /\ "num_crops" \in DOMAIN args.log)
          => Taken("stitch_crops")
    /\ (Called /\ ~args.isdir) =>
          /\ pc = "raised"
          /\ err = "crop_dir not a valid directory"
          /\ trace = <<"isdir">>

\* a sliced and cropped stack has been reconstructed
C14_Witness ==
    /\ pc = "done"
    /\ trace = <<"isdir", "read_log", "load_npzs", "stitch_slices", "stitch_crops">>

(***************************************************************************)
(* load_crops of npz_postprocessing.py.  args is [fov_names,               *)
(* num_row_crops, num_col_crops, save_format, files]; files maps           *)
(* <<fov_name, row, col>> to the tile file of that name in crop_dir, a     *)
(* record [ext, X, y] of its extension and contents, or NoFile.  Crops are *)
(* one pixel large with two channels, <<X, y>>.  `trace` holds the lines   *)
(* printed.                                                                *)
(***************************************************************************)
NoFile == [ext |-> "", X |-> 0, y |-> 0]

TileFile(ext, X, y) == [ext |-> ext, X |-> X, y |-> y]

\* lines 63-64 and 74-75: os.path.exists of the path built for save_format
path_exists(file, save_format) == file.ext = save_format

\* lines 62-80: the crop entry after the tile has been looked up
load_tile(entry, file, save_format) ==
    IF save_format = "npz"
    THEN IF path_exists(file, "npz") THEN <<file.X, file.y>> ELSE entry
    ELSE IF save_format = "xr"
    THEN IF path_exists(file, "xr") THEN <<file.X, file.y>> ELSE entry
    ELSE entry

\* lines 70 and 80: what is printed for the tile
printed(file, save_format, tile) ==
    IF save_format \in {"npz", "xr"} /\ ~path_exists(file, save_format)
    THEN <<[msg |-> "could not find " \o save_format, tile |-> tile]>>
    ELSE <<>>

\* line 81 (and line 57 at the start of a fov)
same_crop_idx(crop_idx) == crop_idx

next_crop_idx(crop_idx) == crop_idx + 1

\* one pass of the body of the loops of lines 56-81
LoadTile ==
    /\ pc = "load_crops"
    /\ img < Len(args.fov_names)
    /\ LET tile == <<args.fov_names[img + 1], row, col>>
           file == args.files[tile]
       IN  /\ stack' = [stack EXCEPT ![img + 1][crop_counter + 1] =
                            load_tile(@, file, args.save_format)]
           /\ trace' = trace \o printed(file, args.save_format, tile)
    /\ IF col + 1 < args.num_col_crops
       THEN /\ col' = col + 1
            /\ crop_counter' = next_crop_idx(crop_counter)
            /\ UNCHANGED <<img, row>>
       ELSE IF row + 1 < args.num_row_crops
       THEN /\ col' = 0
            /\ row' = row + 1
            /\ crop_counter' = next_crop_idx(crop_counter)
            /\ img' = img
       ELSE /\ col' = 0
            /\ row' = 0
            /\ crop_counter' = 0
            /\ img' = img + 1
    /\ UNCHANGED <<pc, args, result, err, mode, objVars, log_data, stitched_image, stitched_images>>

\* line 83
ReturnStack ==
    /\ pc = "load_crops"
    /\ img = Len(args.fov_names)
    /\ result' = [kind |-> "return", stack |-> stack]
    /\ pc' = "loaded"
    /\ UNCHANGED <<args, err, trace, mode, objVars, stack, log_data, stitched_image, loopVars,
                   stitched_images>>

\* fov names and grid sizes tried
LoadGrids ==
    { [fov_names |-> <<"fov1">>, num_row_crops |-> 2, num_col_crops |-> 2],
      [fov_names |-> <<"fov1", "fov2">>, num_row_crops |-> 1, num_col_crops |-> 2],
      [fov_names |-> <<"fov1">>, num_row_crops |-> 3, num_col_crops |-> 1] }

GridTiles(g) ==
    {g.fov_names[i] : i \in DOMAIN g.fov_names}
        \X (0 .. g.num_row_crops - 1) \X (0 .. g.num_col_crops - 1)

TileFiles == {NoFile} \cup {TileFile(e, 1, y) : e \in {"npz", "xr"}, y \in 1 .. MaxLabel}

\* line 53 with the loop headers
InitLoad ==
    /\ pc = "load_crops"
    /\ mode = "asis"
    /\ self = NoObject
    /\ threads = <<>>
    /\ result = NoResult
    /\ err = ""
    /\ trace = <<>>
    /\ \E g \in LoadGrids, fmt \in {"npz", "xr", "tiff"} :
          /\ \E files \in [GridTiles(g) -> TileFiles] :
                args = [fov_names |-> g.fov_names, num_row_crops |-> g.num_row_crops,
                        num_col_crops |-> g.num_col_crops, save_format |-> fmt,
                        files |-> files]
          /\ stack = [i \in DOMAIN g.fov_names |->
                         [k \in 1 .. g.num_col_crops * g.num_row_crops |-> <<0, 0>>]]
    /\ log_data = NoLog
    /\ stitched_image = <<>>
    /\ img = 0
    /\ row = 0
    /\ col = 0
    /\ crop_counter = 0
    /\ stitched_images = NoImages

NextLoad == LoadTile \/ ReturnStack

SpecLoad == InitLoad /\ [][NextLoad]_vars

\* the tiles of the call and which of them have no file
AllTiles ==
    {<<i, r, c>> : i \in DOMAIN args.fov_names, r \in 0 .. args.num_row_crops - 1,
                   c \in 0 .. args.num_col_crops - 1}

FileOf(t) == args.files[<<args.fov_names[t[1]], t[2], t[3]>>]

Missing(t) == ~path_exists(FileOf(t), args.save_format)

\* C15: load_crops raises nothing whatever tile files are missing; in the stack
\* it returns, the crop of every tile without a file is all zero and the crop of
\* every tile with a file holds the content of that file.
C15_MissingTilesTolerated ==
    /\ pc # "raised"
    /\ err = ""
    /\ pc = "loaded" =>
          /\ result.kind = "return"
          /\ \A t \in AllTiles :
                LET entry == result.stack[t[1]][t[2] * args.num_col_crops + t[3] + 1]
                IN  IF Missing(t) THEN entry = <<0, 0>>
                    ELSE entry = <<FileOf(t).X, FileOf(t).y>>

\* a 2x2 grid loaded with the tiles (0,1) and (1,0) missing and the others read
C15_Witness ==
    /\ pc = "loaded"
    /\ args.num_row_crops = 2
    /\ args.num_col_crops = 2
    /\ args.save_format = "npz"
    /\ Missing(<<1, 0, 1>>)
    /\ Missing(<<1, 1, 0>>)
    /\ result.stack[1] = <<<<1, 1>>, <<0, 0>>, <<0, 0>>, <<1, 2>>>>

\* the identifiers of the missing tiles, in the order of the load
RECURSIVE MissingList(_)
MissingList(k) ==
    IF k = 0 THEN <<>>
    ELSE LET n == args.num_row_crops * args.num_col_crops
             t == <<((k - 1) \div n) + 1,
                    ((k - 1) % n) \div args.num_col_crops,
                    ((k - 1) % n) % args.num_col_crops>>
         IN  MissingList(k - 1) \o
                (IF Missing(t) THEN <<<<args.fov_names[t[1]], t[2], t[3]>>>> ELSE <<>>)

\* C16: the loader returns, alongside the stack, the list of the identifiers
\* of all tiles that were missing over the whole load.
C16_MissingReturned ==
    pc = "loaded" =>
        /\ "missing" \in DOMAIN result
        /\ result["missing"] =
              MissingList(Len(args.fov_names) * args.num_row_crops * args.num_col_crops)

(***************************************************************************)
(* Coordinate Planner on its own: compute_crop_indices applied to one axis *)
(* as crop_multichannel_data calls it (lines 110-124), with a crop_size or *)
(* a crop_num.  args is [img_len, crop_size, crop_num, overlap_frac].      *)
(***************************************************************************)
PlannerFracs ==
    {<<0, 1>>, <<1, 10>>, <<1, 4>>, <<1, 3>>, <<1, 2>>, <<2, 3>>, <<3, 4>>, <<9, 10>>}

ComputeCropIndices ==
    /\ pc = "call"
    /\ LET r == compute_crop_indices(args.img_len, args.crop_size, args.crop_num,
                                     args.overlap_frac)
       IN  /\ trace' = <<"compute_crop_indices">>
           /\ IF r.kind = "raise"
              THEN pc' = "raised" /\ err' = r.err /\ result' = NoResult
              ELSE pc' = "planned" /\ err' = err /\ result' = r
    /\ UNCHANGED <<args, mode, objVars, stack, log_data, stitched_image, loopVars, stitched_images>>

InitPlanner ==
    /\ pc = "call"
    /\ mode = "asis"
    /\ self = NoObject
    /\ threads = <<>>
    /\ \E L \in 1 .. MaxImgLen, v \in 0 .. MaxImgLen + 1, f \in PlannerFracs,
          by_size \in BOOLEAN :
          args = [img_len |-> L,
                  crop_size |-> IF by_size THEN Some(v) ELSE Absent,
                  crop_num |-> IF by_size THEN Absent ELSE Some(v),
                  overlap_frac |-> f]
    /\ Idle

NextPlanner == ComputeCropIndices

SpecPlanner == InitPlanner /\ [][NextPlanner]_vars

\* stride = S * (1 - f) >= 1
StrideAtLeastOne(S, f) == S * (f[2] - f[1]) >= f[2]

\* C17: for an axis length L >= 1, a tile size S >= 1 and an overlap fraction
\* in [0,1) with stride >= 1 the planner returns tiles that all have
\* end - start = S, with starts strictly increasing from 0, and a pad amount
\* P >= 0 with the last end equal to L + P; with any smaller pad the last
\* tile would not fit the padded axis.
C17_PaddingInvariant ==
    (Called /\ args.crop_size.given /\ args.crop_size.v >= 1
     /\ StrideAtLeastOne(args.crop_size.v, args.overlap_frac)) =>
        /\ pc = "planned"
        /\ LET n == Len(result.starts)
               L == args.img_len
               P == result.padding
           IN  /\ n >= 1
               /\ Len(result.ends) = n
               /\ \A i \in 1 .. n : result.ends[i] - result.starts[i] = args.crop_size.v
               /\ result.starts[1] = 0
               /\ \A i \in 1 .. n - 1 : result.starts[i] < result.starts[i + 1]
               /\ P >= 0
               /\ result.ends[n] = L + P
               /\ \A Q \in 0 .. P - 1 : \E i \in 1 .. n : result.ends[i] > L + Q

\* three tiles of size 3 at stride 2 over an axis of length 6, padded by 1
C17_Witness ==
    /\ pc = "planned"
    /\ args.img_len = 6
    /\ args.crop_size = Some(3)
    /\ args.overlap_frac = <<1, 3>>
    /\ result.starts = <<0, 2, 4>>
    /\ result.ends = <<3, 5, 7>>
    /\ result.padding = 1

(***************************************************************************)
(* Relabeler (caliban_toolbox.relabel, called by relabel_test.py).  The    *)
(* annotations are a function from <<fov, frame, crop, slice>> (1-based)   *)
(* to label planes of RelabelPixels.                                       *)
(***************************************************************************)
RelabelPixels == (0 .. 0) \X (0 .. 2)

\* shapes <<fovs, frames, crops, slices>> of the stacks tried
RelabelShapes == {<<1, 3, 1, 1>>, <<2, 1, 1, 1>>, <<1, 1, 2, 1>>, <<1, 1, 1, 2>>}

Indices(shape) == (1 .. shape[1]) \X (1 .. shape[2]) \X (1 .. shape[3]) \X (1 .. shape[4])

\* all labels of the stack renumbered together
relabel_whole_stack(annotations) ==
    LET ids == UNION {unique(annotations[i]) : i \in DOMAIN annotations} \ {0}
    IN  [i \in DOMAIN annotations |->
            [p \in DOMAIN annotations[i] |->
                Cardinality({l \in ids : l <= annotations[i][p]})]]

\* policy all_frames: every plane relabeled on its own to 1..n
relabel_all_frames(annotations) ==
    [i \in DOMAIN annotations |-> relabel_sequential(annotations[i])]

\* pixels of label l, the ids of the previous frame under them, and the
\* number of pixels of l under which the previous frame holds id
footprint(plane, l) == {p \in DOMAIN plane : plane[p] = l}

overlap_ids(prev, plane, l) == {prev[p] : p \in footprint(plane, l)} \ {0}

overlap_count(prev, plane, l, id) ==
    Cardinality({p \in footprint(plane, l) : prev[p] = id})

\* the greatest id among those overlapped
greatest_overlap(prev, plane, l) == Max(overlap_ids(prev, plane, l))

\* the id with the largest overlap count, the smallest one on a tie
largest_overlap(prev, plane, l) ==
    LET ids == overlap_ids(prev, plane, l)
        most == Max({overlap_count(prev, plane, l, id) : id \in ids})
    IN  Min({id \in ids : overlap_count(prev, plane, l, id) = most})

\* the new ids of `labels` (ascending), current_max being the largest id
\* given out so far
RECURSIVE link_labels(_, _, _, _)
link_labels(prev, plane, labels, current_max) ==
    IF labels = <<>> THEN <<>>
    ELSE LET l == Head(labels)
             id == IF overlap_ids(prev, plane, l) # {}
                   THEN largest_overlap(prev, plane, l)
                   ELSE current_max + 1
         IN  <<id>> \o link_labels(prev, plane, Tail(labels), Max({current_max, id}))

\* frame t >= 1, given the relabeled frame before it
link_frame(prev, plane, current_max) ==
    LET labels == unique(plane) \ {0}
        ids == link_labels(prev, plane, sorted(labels), current_max)
    IN  [p \in DOMAIN plane |->
            IF plane[p] = 0 THEN 0
            ELSE ids[Cardinality({l \in labels : l <= plane[p]})]]

\* policy preserve on the frames of one fov: `done` are the frames relabeled
\* so far, frame 0 as in all_frames
RECURSIVE preserve_frames(_, _)
preserve_frames(frames, done) ==
    IF Len(done) = Len(frames) THEN done
    ELSE IF done = <<>> THEN preserve_frames(frames, <<relabel_sequential(frames[1])>>)
    ELSE LET current_max == Max({0} \cup UNION {unique(done[t]) : t \in DOMAIN done})
             nxt == link_frame(done[Len(done)], frames[Len(done) + 1], current_max)
         IN  preserve_frames(frames, Append(done, nxt))

\* the frames of the stack at <<fov, crop, slice>>, in frame order
Track(annotations, shape, f, c, sl) ==
    [t \in 1 .. shape[2] |-> annotations[<<f, t, c, sl>>]]

relabel_preserve_relationships(annotations, shape) ==
    [i \in DOMAIN annotations |->
        preserve_frames(Track(annotations, shape, i[1], i[3], i[4]), <<>>)[i[2]]]

\* relabel.relabel_data(stack, relabel_type)
relabel_data(annotations, shape, relabel_type) ==
    IF relabel_type = "preserve"
    THEN relabel_preserve_relationships(annotations, shape)
    ELSE relabel_all_frames(annotations)

RelabelData ==
    /\ pc = "call"
    /\ result' = [kind |-> "return",
                   stack |-> relabel_data(args.stack, args.shape, args.relabel_type)]
    /\ trace' = <<"relabel_" \o args.relabel_type>>
    /\ pc' = "relabeled"
    /\ UNCHANGED <<args, err, mode, objVars, stack, log_data, stitched_image, loopVars,
                   stitched_images>>

InitRelabel ==
    /\ pc = "call"
    /\ mode = "asis"
    /\ self = NoObject
    /\ threads = <<>>
    /\ \E shape \in RelabelShapes, type \in {"preserve", "all_frames"} :
          \E a \in [Indices(shape) -> [RelabelPixels -> 0 .. MaxLabel]] :
             args = [stack |-> a, shape |-> shape, relabel_type |-> type]
    /\ Idle

NextRelabel == RelabelData

SpecRelabel == InitRelabel /\ [][NextRelabel]_vars

(***************************************************************************)
(* Properties of the Relabeler                                             *)
(***************************************************************************)
Relabeled(type) == pc = "relabeled" /\ args.relabel_type = type

\* the plane of RelabelPixels with the labels a, b, c from left to right
Row3(a, b, c) == [p \in RelabelPixels |-> <<a, b, c>>[p[2] + 1]]

\* C18 as stated: after relabel_all_frames, max(label) + 1 equals the number
\* of distinct values in every plane, and background 0 stays 0.
C18_MaxPlusOneIsCount ==
    Relabeled("all_frames") =>
        \A i \in DOMAIN result.stack :
            /\ amax(result.stack[i]) + 1 = Cardinality(unique(result.stack[i]))
            /\ \A p \in RelabelPixels : args.stack[i][p] = 0 => result.stack[i][p] = 0

\* C18, amended: after relabel_all_frames the non-zero labels of every plane
\* are exactly 1..n whatever the other planes hold, so that max(label) + 1
\* equals the number of distinct values of every plane that has a background
\* pixel; a pixel is 0 after the relabeling exactly if it was 0 before.
C18_DensePerPlane ==
    Relabeled("all_frames") =>
        \A i \in DOMAIN result.stack :
            /\ Dense(result.stack[i])
            /\ (0 \in unique(result.stack[i])) =>
                  amax(result.stack[i]) + 1 = Cardinality(unique(result.stack[i]))
            /\ \A p \in RelabelPixels : (args.stack[i][p] = 0) <=> (result.stack[i][p] = 0)

\* two fovs whose planes hold different raw labels, both relabeled to 1
C18_Witness ==
    /\ Relabeled("all_frames")
    /\ args.shape = <<2, 1, 1, 1>>
    /\ args.stack[<<1, 1, 1, 1>>] = Row3(0, 2, 2)
    /\ args.stack[<<2, 1, 1, 1>>] = Row3(1, 0, 0)
    /\ result.stack[<<1, 1, 1, 1>>] = Row3(0, 1, 1)
    /\ result.stack[<<2, 1, 1, 1>>] = Row3(1, 0, 0)

\* <<original label, new label>> of every pixel of the frames of one fov
LabelPairs(f, c, sl) ==
    {<<args.stack[<<f, t, c, sl>>][p], result.stack[<<f, t, c, sl>>][p]>> :
        t \in 1 .. args.shape[2], p \in RelabelPixels}

\* C19: relabel_preserve_relationships renames the labels of the frames of a
\* fov consistently: a bijection m from the original non-zero labels to 1..K
\* takes every pixel of original label v to m(v) in every frame, also for an
\* object that is absent in one frame and present again later.
C19_ConsistentRenaming ==
    Relabeled("preserve") =>
        \A f \in 1 .. args.shape[1], c \in 1 .. args.shape[3], sl \in 1 .. args.shape[4] :
            LET pairs == LabelPairs(f, c, sl)
                K == Cardinality({x[1] : x \in pairs} \ {0})
            IN  /\ \A x \in pairs, y \in pairs : (x[1] = y[1]) <=> (x[2] = y[2])
                /\ \A x \in pairs : (x[1] = 0) <=> (x[2] = 0)
                /\ {x[2] : x \in pairs} \ {0} = 1 .. K

MaxImages == 4

MaxMinSize == 5

\* splits=None
NoSplits == [given |-> FALSE, list |-> <<>>]

SplitList(list) == [given |-> TRUE, list |-> list]

\* line 44
DefaultSplits == <<5, 10, 25, 50, 75, 100>>

\* list.sort()
sort(list) == SortSeq(list, LAMBDA a, b : a < b)

never_duplicates(list) == FALSE

\* lines 52-53: np.any(counts != 1)
has_duplicates(list) == \E i \in DOMAIN list, j \in DOMAIN list : i # j /\ list[i] = list[j]

\* lines 43-55: the splits stored, or the exception raised
check_splits(splits) ==
    IF ~splits.given THEN [kind |-> "return", splits |-> DefaultSplits]
    ELSE LET sorted_splits == sort(splits.list)
         IN  IF sorted_splits = <<>> THEN Raise("IndexError")
             ELSE IF sorted_splits[1] <= 0
             THEN Raise("ValueError: Smallest split must be non-zero")
             ELSE IF sorted_splits[Len(sorted_splits)] > 100
             THEN Raise("ValueError: Largest split cannot be greater than 1")
             ELSE IF has_duplicates(sorted_splits)
             THEN Raise("ValueError: Duplicate splits are not allowed")
             ELSE [kind |-> "return", splits |-> sorted_splits]

\* DatasetSplitter.__init__
NewDatasetSplitter ==
    /\ pc = "call"
    /\ LET r == check_splits(args.splits)
       IN  IF r.kind = "raise"
           THEN /\ pc' = "raised"
                /\ err' = r.err
                /\ self' = self
           ELSE /\ pc' = "constructed"
                /\ err' = err
                /\ self' = [class |-> "DatasetSplitter", seed |-> args.seed,
                             splits |-> r.splits]
    /\ UNCHANGED <<args, result, trace, mode, stack, log_data, stitched_image, loopVars,
                   stitched_images, threads>>

\* lines 57-59
validate_dict(train_dict) ==
    IF "X" \notin train_dict.keys \/ "y" \notin train_dict.keys
    THEN "ValueError: X and y must be keys in the training dictionary"
    ELSE ""

\* np.repeat(indices, multiplier): every element multiplier times in a row
repeat(indices, multiplier) ==
    [j \in 1 .. Len(indices) * multiplier |-> indices[((j - 1) \div multiplier) + 1]]

\* lines 72-76, len(indices) > 0
duplicate_indices(indices, min_size) ==
    LET multiplier == CeilDiv(min_size, Len(indices))
        new_indices == repeat(indices, multiplier)
    IN  SubSeq(new_indices, 1, Min({min_size, Len(new_indices)}))

\* line 101 without the minimum of one image
train_size_floor(split, N_batches) == (split * N_batches) \div 100

\* line 101: max(int(split * N_batches), 1)
train_size(split, N_batches) == Max({(split * N_batches) \div 100, 1})

\* the last train_size images of the permutation
tail_indices(permuted_index, size) ==
    SubSeq(permuted_index, Len(permuted_index) - Min({size, Len(permuted_index)}) + 1,
           Len(permuted_index))

\* line 102: permuted_index[0:train_size]
head_indices(permuted_index, size) ==
    SubSeq(permuted_index, 1, Min({size, Len(permuted_index)}))

\* lines 101-106: the indices of one split, <<>> with an error when
\* _duplicate_indices divides by zero
split_indices(split, N_batches, permuted_index, min_size) ==
    LET split_idx == head_indices(permuted_index, train_size(split, N_batches))
    IN  IF Len(split_idx) < min_size
        THEN IF Len(split_idx) = 0 THEN Raise("ZeroDivisionError")
             ELSE [kind |-> "return", idx |-> duplicate_indices(split_idx, min_size)]
        ELSE [kind |-> "return", idx |-> split_idx]

\* lines 108-111
new_train_dict(split_idx) ==
    [X |-> [j \in DOMAIN split_idx |-> <<"X", split_idx[j]>>],
     y |-> [j \in DOMAIN split_idx |-> <<"y", split_idx[j]>>]]

\* lines 89-113
split_data(splits, train_dict, permuted_index, min_size) ==
    IF validate_dict(train_dict) # "" THEN Raise(validate_dict(train_dict))
    ELSE LET N_batches == train_dict.N
             idx(split) == split_indices(split, N_batches, permuted_index, min_size)
         IN  IF \E i \in DOMAIN splits : idx(splits[i]).kind = "raise"
             THEN Raise("ZeroDivisionError")
             ELSE [kind |-> "return",
                   split_dict |-> [split \in {splits[i] : i \in DOMAIN splits} |->
                                      new_train_dict(idx(split).idx)]]

\* the permutations of 0..n-1, as sequences
IndexPermutations(n) ==
    {q \in [1 .. n -> 0 .. n - 1] : \A i \in 1 .. n, j \in 1 .. n : i # j => q[i] # q[j]}

\* DatasetSplitter.split
Split ==
    /\ pc = "constructed"
    /\ \E keys \in SUBSET {"X", "y"}, n \in 0 .. MaxImages, min_size \in 0 .. MaxMinSize :
          \E permuted_index \in IndexPermutations(n) :
             LET train_dict == [keys |-> keys, N |-> n]
                 r == split_data(self.splits, train_dict, permuted_index, min_size)
             IN  /\ args' = [splits |-> args.splits, seed |-> args.seed,
                              train_dict |-> train_dict, min_size |-> min_size,
                              permuted_index |-> permuted_index]
                 /\ IF r.kind = "raise"
                    THEN pc' = "raised" /\ err' = r.err /\ result' = result
                    ELSE pc' = "split" /\ err' = err /\ result' = r
    /\ UNCHANGED <<trace, mode, stack, log_data, stitched_image, loopVars,
                   stitched_images, objVars>>

Proportions == {-25, 0, 25, 50, 75, 100, 125}

SplitLists ==
    UNION {[1 .. n -> Proportions] : n \in 0 .. 2} \cup [1 .. 3 -> {25, 75, 100}]

InitSplitter ==
    /\ pc = "call"
    /\ mode = "asis"
    /\ self = NoObject
    /\ threads = <<>>
    /\ \E splits \in {NoSplits} \cup {SplitList(l) : l \in SplitLists} :
          args = [splits |-> splits, seed |-> 0]
    /\ Idle

NextSplitter == NewDatasetSplitter \/ Split

SpecSplitter == InitSplitter /\ [][NextSplitter]_vars

(***************************************************************************)
(* Properties of DatasetSplitter                                           *)
(***************************************************************************)
SplitValueErrors ==
    { "ValueError: Smallest split must be non-zero",
      "ValueError: Largest split cannot be greater than 1",
      "ValueError: Duplicate splits are not allowed" }

\* the supplied values are distinct and lie in (0, 1]
DistinctInUnit(list) ==
    /\ \A i \in DOMAIN list : 0 < list[i] /\ list[i] <= 100
    /\ \A i \in DOMAIN list, j \in DOMAIN list : i # j => list[i] # list[j]

StrictlyIncreasing(list) == \A i \in 1 .. Len(list) - 1 : list[i] < list[i + 1]

Values(list) == {list[i] : i \in DOMAIN list}

Constructed == pc \notin {"call", "raised"} \/ (pc = "raised" /\ self # NoObject)

ConstructorRaised == pc = "raised" /\ self = NoObject

\* C21: the construction raises ValueError whenever the supplied
\* splits are not distinct values in (0, 1]; otherwise the stored splits are
\* the supplied values in strictly increasing order, the default list when
\* none are supplied.
C21_SplitsChecked ==
    Called =>
        IF ~args.splits.given
        THEN Constructed /\ self.splits = DefaultSplits
        ELSE IF ~DistinctInUnit(args.splits.list)
        THEN ConstructorRaised /\ err \in SplitValueErrors
        ELSE /\ Constructed
             /\ StrictlyIncreasing(self.splits)
             /\ Len(self.splits) = Len(args.splits.list)
             /\ Values(self.splits) = Values(args.splits.list)

\* what the constructor does on every input: for a non-empty list of splits it
\* raises ValueError whenever they are not distinct values in (0, 1] and
\* otherwise stores them in strictly increasing order; with no splits supplied
\* the default list is stored; an empty list raises IndexError.
NonEmptySplitsChecked ==
    Called =>
        IF ~args.splits.given
        THEN Constructed /\ self.splits = DefaultSplits
        ELSE IF args.splits.list = <<>>
        THEN ConstructorRaised /\ err = "IndexError"
        ELSE IF ~DistinctInUnit(args.splits.list)
        THEN ConstructorRaised /\ err \in SplitValueErrors
        ELSE /\ Constructed
             /\ StrictlyIncreasing(self.splits)
             /\ Len(self.splits) = Len(args.splits.list)
             /\ Values(self.splits) = Values(args.splits.list)

\* split has been called on the constructed object
SplitCalled == pc = "split" \/ (pc = "raised" /\ self # NoObject)

\* the image indices an entry of the result holds, in order
EntryIndices(entry) == [j \in DOMAIN entry.X |-> entry.X[j][2]]

\* the images the proportion of a split selects, before any padding
Selected(split) ==
    head_indices(args.permuted_index, train_size(split, args.train_dict.N))

\* C22: for a training dict with N >= 1 images split returns one entry per
\* configured split; every entry holds at least max(1, min_size) images, X and
\* y indexed by the same indices; an entry whose proportion gives fewer than
\* min_size images holds exactly min_size images.
C22_EntrySizes ==
    (SplitCalled /\ args.train_dict.keys = {"X", "y"} /\ args.train_dict.N >= 1) =>
        /\ pc = "split"
        /\ DOMAIN result.split_dict = Values(self.splits)
        /\ \A split \in Values(self.splits) :
              LET entry == result.split_dict[split]
              IN  /\ Len(entry.X) >= Max({1, args.min_size})
                  /\ Len(entry.y) = Len(entry.X)
                  /\ \A j \in DOMAIN entry.X :
                        /\ entry.X[j][1] = "X"
                        /\ entry.y[j][1] = "y"
                        /\ entry.y[j][2] = entry.X[j][2]
                        /\ entry.X[j][2] \in 0 .. args.train_dict.N - 1
                  /\ (Len(Selected(split)) < args.min_size
                         => Len(entry.X) = args.min_size)

\* four images, min_size 3: the quarter is padded from one image to three
C22_Witness ==
    /\ pc = "split"
    /\ args.train_dict.N = 4
    /\ args.min_size = 3
    /\ self.splits = <<25, 100>>
    /\ Len(result.split_dict[25].X) = 3
    /\ Len(result.split_dict[100].X) = 4

\* C23: the tranches are nested: for two configured splits s1 < s2 the
\* distinct images of the s1 entry are among those of the s2 entry, and the s1
\* entry has no more images than the s2 entry.
C23_NestedTranches ==
    pc = "split" =>
        \A s1 \in Values(self.splits), s2 \in Values(self.splits) :
            s1 < s2 =>
                LET e1 == EntryIndices(result.split_dict[s1])
                    e2 == EntryIndices(result.split_dict[s2])
                IN  /\ Values(e1) \subseteq Values(e2)
                    /\ Len(e1) <= Len(e2)

\* four images, no padding: one image in the quarter, three in the larger one
C23_Witness ==
    /\ pc = "split"
    /\ args.train_dict.N = 4
    /\ args.min_size = 1
    /\ self.splits = <<25, 75>>
    /\ Len(result.split_dict[25].X) = 1
    /\ Len(result.split_dict[75].X) = 3
    /\ Values(EntryIndices(result.split_dict[25]))
          # Values(EntryIndices(result.split_dict[75]))

\* C30: when a split is padded up to min_size by duplication, every image
\* originally selected for it still appears in the padded split.
C30_PaddingKeepsImages ==
    pc = "split" =>
        \A split \in Values(self.splits) :
            Len(Selected(split)) < args.min_size =>
                Values(Selected(split))
                    \subseteq Values(EntryIndices(result.split_dict[split]))

(***************************************************************************)
(* Loader and Stitcher side by side: load_crops fills the crop axis,       *)
(* stitch_crops reads it.                                                  *)
(***************************************************************************)
InitOrder == InitLoad \/ Init

NextOrder ==
    \/ LoadTile
    \/ ReturnStack
    \/ PlaceCrop
    \/ StitchIndexError
    \/ RelabelImages
    \/ RemovePadding

SpecOrder == InitOrder /\ [][NextOrder]_vars

(***************************************************************************)
(* Properties of the placement loop of stitch_crops                        *)
(***************************************************************************)
\* a plane of one row, from its values
RowPlane(values) == [p \in {0} \X (0 .. Len(values) - 1) |-> values[p[2] + 1]]

\* a crop is placed by the step
Placing == pc = "stitch_crops" /\ pc' # "raised"

\* the window of the iteration, its accumulator plane and its crop as stored
Row0 == log_data.row_start[row + 1]
Col0 == log_data.col_start[col + 1]
Accumulator == stitched_image[img + 1]
RawCrop == stack[img + 1][crop_counter + 1]
StitchedCrop ==
    slice(Accumulator, Row0, log_data.row_end[row + 1], Col0, log_data.col_end[col + 1])

\* the pixel of the padded plane under pixel p of the crop
Under(p) == <<Row0 + p[1], Col0 + p[2]>>

\* C24: load_crops stores tile (row, col) at crop index row * num_col_crops +
\* col; at every iteration of stitch_crops the crop taken from the stack has
\* index row * len(col_starts) + col and is placed in the window
\* [row_starts[row], row_ends[row]) x [col_starts[col], col_ends[col]); the
\* counter is 0 at the first tile of each image.
C24_CropOrder ==
    [][ /\ (pc = "load_crops" /\ img < Len(args.fov_names)) =>
              LET tile == <<args.fov_names[img + 1], row, col>>
                  k == row * args.num_col_crops + col
              IN  /\ crop_counter = k
                  /\ stack' = [stack EXCEPT ![img + 1][k + 1] =
                                   load_tile(@, args.files[tile], args.save_format)]
        /\ pc = "stitch_crops" =>
              /\ crop_counter = row * Len(log_data.col_start) + col
              /\ (row = 0 /\ col = 0) => crop_counter = 0
        /\ Placing =>
              LET k == row * Len(log_data.col_start) + col
                  window == TileWindow(row, col)
              IN  /\ stitched_image' =
                        [stitched_image EXCEPT ![img + 1] =
                            place_crop(@, stack[img + 1][k + 1],
                                       log_data.row_start[row + 1], log_data.row_end[row + 1],
                                       log_data.col_start[col + 1], log_data.col_end[col + 1])]
                  /\ \A p \in DOMAIN Accumulator :
                        IF p \in window
                        THEN (stitched_image'[img + 1][p] # 0) <=>
                                (Accumulator[p] # 0
                                    \/ stack[img + 1][k + 1][<<p[1] - Row0, p[2] - Col0>>] # 0)
                        ELSE stitched_image'[img + 1][p] = Accumulator[p]
      ]_vars

\* two images of two tiles: the first tile of the second image has been taken
\* at crop index 0 and placed, the second one is next at index 1
C24_Witness ==
    /\ pc = "stitch_crops"
    /\ Len(stack) = 2
    /\ img = 1
    /\ row = 0
    /\ col = 1
    /\ crop_counter = 1
    /\ stack[1] = <<RowPlane(<<1, 0>>), RowPlane(<<0, 1>>)>>
    /\ stack[2] = <<RowPlane(<<2, 2>>), RowPlane(<<0, 0>>)>>
    /\ stitched_image = <<RowPlane(<<1, 0, 2>>), RowPlane(<<2, 2, 0>>)>>

\* C25: a crop label whose footprint covers a non-zero accumulator pixel is
\* reassigned on all of its pixels to the greatest accumulator ID under its
\* footprint, whatever the pixel counts; a crop label covering no non-zero
\* accumulator pixel keeps its offset ID.
C25_GreatestIdWins ==
    [][ Placing =>
          LET lowest_allowed_val == amax(Accumulator)
              crop == offset_crop(RawCrop, lowest_allowed_val)
              remapped == remap_cells(crop, sorted(unique(crop) \ {0}), StitchedCrop)
          IN  \A l \in unique(RawCrop) \ {0} :
                 LET cell == {p \in DOMAIN RawCrop : RawCrop[p] = l}
                     present == {StitchedCrop[p] : p \in cell} \ {0}
                     id == IF present # {} THEN Max(present) ELSE l + lowest_allowed_val
                 IN  \A p \in cell :
                        /\ remapped[p] = id
                        /\ StitchedCrop[p] = 0 => stitched_image'[img + 1][Under(p)] = id
      ]_vars

\* the second crop's label lies on two pixels of accumulator label 1 and one
\* pixel of label 2: all of it becomes 2
C25_Witness ==
    /\ pc = "relabel"
    /\ stack = <<<<RowPlane(<<1, 1, 1, 2>>), RowPlane(<<1, 1, 1, 1>>)>>>>
    /\ stitched_image = <<RowPlane(<<1, 1, 1, 2, 2>>)>>

\* C26: during the placement loop an accumulator pixel that holds a non-zero
\* value is not changed by any later crop; a crop writes only to pixels that
\* are still zero.
C26_FirstPlacedWins ==
    [][ pc = "stitch_crops" =>
          \A i \in DOMAIN stitched_image :
             \A p \in DOMAIN stitched_image[i] :
                stitched_image[i][p] # 0 => stitched_image'[i][p] = stitched_image[i][p]
      ]_vars

\* the second crop is non-zero on the pixel the first crop labelled 1 and is
\* remapped to 2: the pixel still holds 1
C26_Witness ==
    /\ pc = "relabel"
    /\ stack = <<<<RowPlane(<<0, 1, 2>>), RowPlane(<<1, 1, 1>>)>>>>
    /\ stitched_image = <<RowPlane(<<0, 1, 2, 2>>)>>

\* C27: after the offset is added every non-zero crop label is greater than
\* every label of the plane's accumulator, zero crop pixels stay zero and
\* distinct raw labels stay distinct, so that before remapping no crop label
\* equals an accumulator label; a label placed without overlap is new to the
\* accumulator.
C27_OffsetAboveAccumulator ==
    [][ Placing =>
          LET lowest_allowed_val == amax(Accumulator)
              crop == offset_crop(RawCrop, lowest_allowed_val)
          IN  /\ \A p \in DOMAIN RawCrop :
                    IF RawCrop[p] = 0 THEN crop[p] = 0
                    ELSE \A q \in DOMAIN Accumulator : crop[p] > Accumulator[q]
              /\ \A p \in DOMAIN RawCrop, q \in DOMAIN RawCrop :
                    RawCrop[p] # RawCrop[q] => crop[p] # crop[q]
              /\ (unique(crop) \ {0}) \cap unique(Accumulator) = {}
              /\ \A p \in DOMAIN RawCrop :
                    (/\ RawCrop[p] # 0
                     /\ \A q \in DOMAIN RawCrop :
                           RawCrop[q] = RawCrop[p] => StitchedCrop[q] = 0)
                        => stitched_image'[img + 1][Under(p)] \notin unique(Accumulator)
      ]_vars

\* the accumulator holds 1 and 2: raw label 1 of the second crop is placed as 3
C27_Witness ==
    /\ pc = "relabel"
    /\ stack = <<<<RowPlane(<<1, 2, 0>>), RowPlane(<<0, 0, 1>>)>>>>
    /\ stitched_image = <<RowPlane(<<1, 2, 0, 3>>)>>

\* C29: in the output of stitch_crops a pixel of the padded plane is non-zero
\* if and only if a crop whose window covers it is non-zero at that position.
C29_ForegroundIsUnion ==
    pc = "stitched" =>
        \A i \in DOMAIN stitched_image :
           \A p \in DOMAIN stitched_image[i] :
              (stitched_image[i][p] # 0) <=>
                 (\E t \in Tiles : \E id \in CropIds(i, t) : p \in Footprint(i, t, id))

\* columns 0 and 1 are background in every crop covering them, column 2 is
\* annotated in the first crop only, column 3 in the second
C29_Witness ==
    /\ pc = "stitched"
    /\ stack = <<<<RowPlane(<<0, 0, 1>>), RowPlane(<<0, 0, 1>>)>>>>
    /\ stitched_image = <<RowPlane(<<0, 0, 1, 2>>)>>

(***************************************************************************)
(* ProgressPercentage (caliban_toolbox/aws_functions.py): the callback of  *)
(* an upload, called by the transfer threads with the bytes each of them   *)
(* has sent.  `self` holds the attributes of the object, `threads` the     *)
(* position of every thread inside __call__, `trace` what has been written *)
(* to stdout.  self._seen_so_far += bytes_amount is a read of the          *)
(* attribute followed by a write, two steps another thread can come        *)
(* between.                                                                *)
(***************************************************************************)
\* calls of the callback made by one thread
MaxCalls == 2

\* largest bytes_amount of a call
MaxBytes == 2

\* the transfer threads
Threads == {1, 2}

\* os.path.getsize(filename) of the files tried, an empty file among them
FileSizes == {0, 4}

\* threading.Lock(): the thread that holds the lock, Unlocked when none does
Unlocked == 0

\* acquire without a lock: always succeeds
may_enter(lock) == TRUE

\* line 44, with self._lock: the lock can be taken when no thread holds it
may_acquire(lock) == lock = Unlocked

\* line 46: (self._seen_so_far / self._size) * 100, as a fraction
percentage_of(seen_so_far, size) == <<seen_so_far * 100, size>>

IdleThread == [pc |-> "idle", bytes_amount |-> 0, seen |-> 0, percentage |-> <<0, 1>>,
               passed |-> 0, calls |-> 0]

\* a thread calls the callback: __call__(bytes_amount)
Call ==
    \E t \in Threads, bytes_amount \in 1 .. MaxBytes :
        /\ threads[t].pc = "idle"
        /\ threads[t].calls < MaxCalls
        /\ threads' = [threads EXCEPT ![t].pc = "enter",
                                      ![t].bytes_amount = bytes_amount,
                                      ![t].calls = @ + 1]
        /\ UNCHANGED <<pc, args, result, err, trace, mode, stack, log_data, stitched_image,
                       loopVars, stitched_images, self>>

\* line 44: with self._lock
AcquireLock ==
    \E t \in Threads :
        /\ threads[t].pc = "enter"
        /\ may_acquire(self.lock)
        /\ self' = [self EXCEPT !.lock = t]
        /\ threads' = [threads EXCEPT ![t].pc = "load"]
        /\ UNCHANGED <<pc, args, result, err, trace, mode, stack, log_data, stitched_image,
                       loopVars, stitched_images>>

\* line 45, the read of self._seen_so_far += bytes_amount
LoadSeenSoFar ==
    \E t \in Threads :
        /\ threads[t].pc = "load"
        /\ threads' = [threads EXCEPT ![t].pc = "store", ![t].seen = self.seen_so_far]
        /\ UNCHANGED <<pc, args, result, err, trace, mode, stack, log_data, stitched_image,
                       loopVars, stitched_images, self>>

\* line 45, the write of self._seen_so_far += bytes_amount
StoreSeenSoFar ==
    \E t \in Threads :
        /\ threads[t].pc = "store"
        /\ self' = [self EXCEPT !.seen_so_far = threads[t].seen + threads[t].bytes_amount]
        /\ threads' = [threads EXCEPT ![t].pc = "percentage"]
        /\ UNCHANGED <<pc, args, result, err, trace, mode, stack, log_data, stitched_image,
                       loopVars, stitched_images>>

\* line 46
ComputePercentage ==
    \E t \in Threads :
        /\ threads[t].pc = "percentage"
        /\ self.size # 0
        /\ threads' = [threads EXCEPT ![t].pc = "write",
                                      ![t].percentage =
                                          percentage_of(self.seen_so_far, self.size)]
        /\ UNCHANGED <<pc, args, result, err, trace, mode, stack, log_data, stitched_image,
                       loopVars, stitched_images, self>>

\* line 46 for an empty file: ZeroDivisionError leaves the with block, which
\* releases the lock
DivisionByZero ==
    \E t \in Threads :
        /\ threads[t].pc = "percentage"
        /\ self.size = 0
        /\ self' = [self EXCEPT !.lock = Unlocked]
        /\ threads' = [threads EXCEPT ![t].pc = "raised",
                                      ![t].passed = @ + threads[t].bytes_amount]
        /\ UNCHANGED <<pc, args, result, err, trace, mode, stack, log_data, stitched_image,
                       loopVars, stitched_images>>

\* lines 47-51: sys.stdout.write(...) and flush
WriteProgress ==
    \E t \in Threads :
        /\ threads[t].pc = "write"
        /\ trace' = Append(trace, [seen_so_far |-> self.seen_so_far, size |-> self.size,
                                    percentage |-> threads[t].percentage])
        /\ threads' = [threads EXCEPT ![t].pc = "release"]
        /\ UNCHANGED <<pc, args, result, err, mode, stack, log_data, stitched_image,
                       loopVars, stitched_images, self>>

\* the end of the with block: the lock is released and the call returns
ReleaseLock ==
    \E t \in Threads :
        /\ threads[t].pc = "release"
        /\ self' = [self EXCEPT !.lock = Unlocked]
        /\ threads' = [threads EXCEPT ![t].pc = "idle",
                                      ![t].passed = @ + threads[t].bytes_amount]
        /\ UNCHANGED <<pc, args, result, err, trace, mode, stack, log_data, stitched_image,
                       loopVars, stitched_images>>

\* lines 37-41: ProgressPercentage(filename), handed to the transfer threads
InitProgress ==
    /\ pc = "upload"
    /\ args = NoCall
    /\ mode = "asis"
    /\ Idle
    /\ \E size \in FileSizes :
          self = [class |-> "ProgressPercentage", size |-> size, seen_so_far |-> 0,
                  lock |-> Unlocked]
    /\ threads = [t \in Threads |-> IdleThread]

NextProgress ==
    \/ Call
    \/ AcquireLock
    \/ LoadSeenSoFar
    \/ StoreSeenSoFar
    \/ ComputePercentage
    \/ DivisionByZero
    \/ WriteProgress
    \/ ReleaseLock

SpecProgress == InitProgress /\ [][NextProgress]_vars

(***************************************************************************)
(* Properties of ProgressPercentage                                        *)
(***************************************************************************)
\* the bytes of the calls of thread t that have got past the update of line 45
Counted(t) ==
    threads[t].passed +
        (IF threads[t].pc \in {"percentage", "write", "release"}
         THEN threads[t].bytes_amount ELSE 0)

\* the bytes of all the calls that have got past the update
RECURSIVE RunningTotal(_)
RunningTotal(S) ==
    IF S = {} THEN 0
    ELSE LET t == CHOOSE x \in S : TRUE IN Counted(t) + RunningTotal(S \ {t})

\* the bytes of all the calls that have returned or raised
RECURSIVE TotalPassed(_)
TotalPassed(S) ==
    IF S = {} THEN 0
    ELSE LET t == CHOOSE x \in S : TRUE IN threads[t].passed + TotalPassed(S \ {t})

\* no call is in progress
AllReturned == \A t \in Threads : threads[t].pc \in {"idle", "raised"}

\* C28: whatever the interleaving of the calls, _seen_so_far is the sum of the
\* bytes_amount values of the calls that have updated it, so that it is the
\* sum of all the values passed once every call has returned; and the line a
\* call prints holds the running total, the bytes of that call included, and
\* the percentage of that total.
C28_NoLostUpdate ==
    /\ [](/\ self.seen_so_far = RunningTotal(Threads)
          /\ AllReturned =>
                self.seen_so_far = TotalPassed(Threads))
    /\ [][ \A t \in Threads :
              (threads[t].pc = "write" /\ threads'[t].pc = "release") =>
                  trace' = Append(trace,
                                  [seen_so_far |-> RunningTotal(Threads),
                                   size |-> self.size,
                                   percentage |-> <<RunningTotal(Threads) * 100,
                                                    self.size>>])
        ]_vars

\* both threads have made their two calls, six bytes in all: four lines
\* printed, the second at three bytes of four, the last at six
C28_Witness ==
    /\ AllReturned
    /\ threads[1].calls = 2
    /\ threads[2].calls = 2
    /\ self.seen_so_far = 6
    /\ Len(trace) = 4
    /\ trace[4].seen_so_far = 6
    /\ trace[2].percentage = <<300, 4>>

====
